---- MODULE Spec2Model ----
(***************************************************************************)
(* The five-stage request pipeline of the voice shopping assistant:        *)
(* intent_parser.route, query_strategist.plan, data_fetcher.retrieve,      *)
(* response_synthesizer.answer and quality_validator.critique, run in      *)
(* that order over one request state (workflow.create_workflow).           *)
(*                                                                         *)
(* Text is modelled character by character: a Python str is a sequence of  *)
(* one-character strings, so that lower(), strip(), "in", split() and the  *)
(* regular expressions of the code are computed, not assumed.  The em dash *)
(* of the fallback answer is the single character "EMDASH".  A Python      *)
(* float is an integer number of thousandths.                              *)
(***************************************************************************)
EXTENDS Integers, Sequences, FiniteSets, TLC

VARIABLES
    pc,            \* the node of the workflow graph that runs next
    transcript,    \* AgentState.transcript
    intent,        \* AgentState.intent
    plan,          \* AgentState.plan
    evidence,      \* AgentState.evidence
    answer,        \* AgentState.answer
    citations,     \* AgentState.citations
    safety_flags,  \* AgentState.safety_flags
    log,           \* AgentState.log
    error,         \* the exception that left the graph, None while none did
    _model_interface_instance,  \* the module global of llm_interface
    instances,     \* the number of ModelInterface objects constructed so far
    thread_pc,     \* the line of get_llm_client each thread is at
    thread_instance,  \* the object each thread holds: built or returned
    thread_calls,  \* the calls of get_llm_client each thread has made
    received,      \* the objects get_llm_client has returned so far
    rag_items,     \* the first argument of reconcile
    web_items,     \* the second argument of reconcile
    token_set_ratio,  \* the title similarity of each catalog and web item
    reconciled_results,  \* what reconcile returned, None before the call
    tool_pc,       \* where each tool call of retrieve stands
    tool_outcome,  \* what each finished tool call got from its tool
    tool_evidence,  \* the local collected_evidence of retrieve
    tool_log       \* the local execution_log of retrieve

\* the state record of one request
requestVars == <<pc, transcript, intent, plan, evidence, answer, citations, safety_flags, log, error>>

\* the generative client shared by the requests of the process
clientVars == <<_model_interface_instance, instances, thread_pc, thread_instance, thread_calls, received>>

\* a call of the reconciliation utility
reconcileVars == <<rag_items, web_items, token_set_ratio, reconciled_results>>

\* the tool calls of one run of retrieve, issued in any order
fetchVars == <<tool_pc, tool_outcome, tool_evidence, tool_log>>

vars == <<pc, transcript, intent, plan, evidence, answer, citations, safety_flags, log, error,
          _model_interface_instance, instances, thread_pc, thread_instance, thread_calls, received,
          rag_items, web_items, token_set_ratio, reconciled_results,
          tool_pc, tool_outcome, tool_evidence, tool_log>>

(***************************************************************************)
(* Python values.  A value is tagged with its type, so that values of      *)
(* different types can be compared; a dict is a function from its keys.    *)
(***************************************************************************)
None == [none |-> TRUE]
Str(s) == [str |-> s]
Num(n) == [num |-> n]
Bool(b) == [bool |-> b]
List(l) == [list |-> l]
Dict(d) == [dict |-> d]
Sym(s) == [sym |-> s]

EmptyDict == [k \in {} |-> None]

IsStr(v) == DOMAIN v = {"str"}
IsNum(v) == DOMAIN v = {"num"}
IsList(v) == DOMAIN v = {"list"}
IsDict(v) == DOMAIN v = {"dict"}

\* d.get(k): the value under k, None when the key is missing
Get(d, k) == IF k \in DOMAIN d THEN d[k] ELSE None

\* d.get(k, default)
GetOr(d, k, default) == IF k \in DOMAIN d THEN d[k] ELSE default

\* bool(v)
Truthy(v) ==
    CASE DOMAIN v = {"none"} -> FALSE
      [] DOMAIN v = {"str"}  -> v.str # <<>>
      [] DOMAIN v = {"num"}  -> v.num # 0
      [] DOMAIN v = {"bool"} -> v.bool
      [] DOMAIN v = {"list"} -> v.list # <<>>
      [] DOMAIN v = {"dict"} -> DOMAIN v.dict # {}
      [] DOMAIN v = {"sym"}  -> TRUE

\* a or b
Or(a, b) == IF Truthy(a) THEN a ELSE b

\* d with the key k set to v
Put(d, k, v) == [x \in DOMAIN d \cup {k} |-> IF x = k THEN v ELSE d[x]]

\* d without the key k
Del(d, k) == [x \in DOMAIN d \ {k} |-> d[x]]

Min(a, b) == IF a < b THEN a ELSE b
Abs(n) == IF n < 0 THEN -n ELSE n

(***************************************************************************)
(* str operations                                                          *)
(***************************************************************************)
SAFETY_PATTERNS ==
    << <<"c", "u", "r", "e">>,
       <<"t", "r", "e", "a", "t", " ", "d", "i", "s", "e", "a", "s", "e">>,
       <<"m", "e", "d", "i", "c", "a", "l", " ", "c", "o", "n", "d", "i", "t", "i", "o", "n">>,
       <<"d", "i", "a", "g", "n", "o", "s", "e">>,
       <<"p", "r", "e", "s", "c", "r", "i", "p", "t", "i", "o", "n", " ", "a", "l", "t", "e", "r", "n", "a", "t", "i", "v", "e">>,
       <<"d", "r", "i", "n", "k">>,
       <<"e", "a", "t">>,
       <<"c", "o", "n", "s", "u", "m", "e">>,
       <<"i", "n", "g", "e", "s", "t">>,
       <<"s", "w", "a", "l", "l", "o", "w">>,
       <<"g", "e", "t", " ", "h", "i", "g", "h">>,
       <<"h", "u", "f", "f", "i", "n", "g">>,
       <<"s", "n", "i", "f", "f", "i", "n", "g">>,
       <<"a", "b", "u", "s", "e">>,
       <<"r", "e", "c", "r", "e", "a", "t", "i", "o", "n", "a", "l", " ", "u", "s", "e">>,
       <<"o", "n", " ", "s", "k", "i", "n">>,
       <<"i", "n", " ", "e", "y", "e", "s">>,
       <<"i", "n", "j", "e", "c", "t">>,
       <<"i", "n", "h", "a", "l", "e", " ", "d", "e", "e", "p", "l", "y">>,
       <<"f", "o", "r", " ", "c", "h", "i", "l", "d", "r", "e", "n", " ", "u", "n", "d", "e", "r">>,
       <<"f", "o", "r", " ", "i", "n", "f", "a", "n", "t", "s">>,
       <<"f", "o", "r", " ", "b", "a", "b", "i", "e", "s">>,
       <<"w", "e", "i", "g", "h", "t", " ", "l", "o", "s", "s">>,
       <<"l", "o", "s", "e", " ", "w", "e", "i", "g", "h", "t">>,
       <<"b", "u", "r", "n", " ", "f", "a", "t">>,
       <<"p", "r", "e", "v", "e", "n", "t", " ", "c", "a", "n", "c", "e", "r">>,
       <<"c", "u", "r", "e", " ", "d", "i", "a", "b", "e", "t", "e", "s">>,
       <<"f", "i", "x", " ", "a", "u", "t", "i", "s", "m">>,
       <<"i", "n", "s", "t", "e", "a", "d", " ", "o", "f", " ", "m", "e", "d", "i", "c", "i", "n", "e">>,
       <<"r", "e", "p", "l", "a", "c", "e", " ", "m", "e", "d", "i", "c", "a", "t", "i", "o", "n">>,
       <<"s", "t", "o", "p", " ", "t", "a", "k", "i", "n", "g">>,
       <<"m", "a", "k", "e", " ", "y", "o", "u", " ", "s", "t", "r", "o", "n", "g", "e", "r">>,
       <<"b", "u", "i", "l", "d", " ", "m", "u", "s", "c", "l", "e", " ", "f", "a", "s", "t">>,
       <<"s", "t", "e", "r", "o", "i", "d", " ", "a", "l", "t", "e", "r", "n", "a", "t", "i", "v", "e">> >>

LIVE_DATA_KEYWORDS ==
    << <<"c", "u", "r", "r", "e", "n", "t", " ", "p", "r", "i", "c", "e">>,
       <<"p", "r", "i", "c", "e", " ", "n", "o", "w">>,
       <<"h", "o", "w", " ", "m", "u", "c", "h">>,
       <<"c", "o", "s", "t", " ", "t", "o", "d", "a", "y">>,
       <<"l", "a", "t", "e", "s", "t", " ", "p", "r", "i", "c", "e">>,
       <<"p", "r", "i", "c", "e", " ", "c", "h", "e", "c", "k">>,
       <<"i", "n", " ", "s", "t", "o", "c", "k">>,
       <<"a", "v", "a", "i", "l", "a", "b", "l", "e">>,
       <<"c", "a", "n", " ", "i", " ", "b", "u", "y">>,
       <<"o", "u", "t", " ", "o", "f", " ", "s", "t", "o", "c", "k">>,
       <<"i", "n", "v", "e", "n", "t", "o", "r", "y">>,
       <<"s", "t", "o", "c", "k", " ", "s", "t", "a", "t", "u", "s">>,
       <<"n", "o", "w">>,
       <<"t", "o", "d", "a", "y">>,
       <<"r", "i", "g", "h", "t", " ", "n", "o", "w">>,
       <<"c", "u", "r", "r", "e", "n", "t", "l", "y">>,
       <<"a", "t", " ", "t", "h", "e", " ", "m", "o", "m", "e", "n", "t">>,
       <<"t", "h", "i", "s", " ", "w", "e", "e", "k">>,
       <<"b", "e", "s", "t", " ", "d", "e", "a", "l">>,
       <<"c", "h", "e", "a", "p", "e", "s", "t">>,
       <<"l", "o", "w", "e", "s", "t", " ", "p", "r", "i", "c", "e">>,
       <<"c", "o", "m", "p", "a", "r", "e", " ", "p", "r", "i", "c", "e", "s">>,
       <<"p", "r", "i", "c", "e", " ", "c", "o", "m", "p", "a", "r", "i", "s", "o", "n">>,
       <<"l", "a", "t", "e", "s", "t", " ", "r", "e", "v", "i", "e", "w", "s">>,
       <<"r", "e", "c", "e", "n", "t", " ", "r", "a", "t", "i", "n", "g", "s">>,
       <<"c", "u", "r", "r", "e", "n", "t", " ", "r", "a", "t", "i", "n", "g">>,
       <<"n", "e", "w", " ", "r", "e", "v", "i", "e", "w", "s">> >>

CLEANING_KEYWORDS ==
    << <<"c", "l", "e", "a", "n">>,
       <<"c", "l", "e", "a", "n", "e", "r">>,
       <<"d", "i", "s", "i", "n", "f", "e", "c", "t">>,
       <<"s", "a", "n", "i", "t", "i", "z", "e">>,
       <<"w", "a", "s", "h">> >>

acknowledgment_phrases ==
    << <<"c", "o", "u", "l", "d", "n", "'", "t", " ", "f", "i", "n", "d">>,
       <<"n", "o", " ", "p", "r", "o", "d", "u", "c", "t", "s">>,
       <<"n", "o", " ", "r", "e", "s", "u", "l", "t", "s">>,
       <<"n", "o", "t", " ", "f", "o", "u", "n", "d">> >>

\* "I couldn't find any products matching those criteria. Try broadening your search or adjusting filters."
NO_RESULTS_ANSWER ==
    <<"I", " ", "c", "o", "u", "l", "d", "n", "'", "t", " ", "f", "i", "n", "d", " ",
      "a", "n", "y", " ", "p", "r", "o", "d", "u", "c", "t", "s", " ", "m", "a", "t",
      "c", "h", "i", "n", "g", " ", "t", "h", "o", "s", "e", " ", "c", "r", "i", "t",
      "e", "r", "i", "a", ".", " ", "T", "r", "y", " ", "b", "r", "o", "a", "d", "e",
      "n", "i", "n", "g", " ", "y", "o", "u", "r", " ", "s", "e", "a", "r", "c", "h",
      " ", "o", "r", " ", "a", "d", "j", "u", "s", "t", "i", "n", "g", " ", "f", "i",
      "l", "t", "e", "r", "s", ".">>

\* "I couldn't find any products matching those criteria. Try broadening your search."
EMPTY_EVIDENCE_ANSWER ==
    <<"I", " ", "c", "o", "u", "l", "d", "n", "'", "t", " ", "f", "i", "n", "d", " ",
      "a", "n", "y", " ", "p", "r", "o", "d", "u", "c", "t", "s", " ", "m", "a", "t",
      "c", "h", "i", "n", "g", " ", "t", "h", "o", "s", "e", " ", "c", "r", "i", "t",
      "e", "r", "i", "a", ".", " ", "T", "r", "y", " ", "b", "r", "o", "a", "d", "e",
      "n", "i", "n", "g", " ", "y", "o", "u", "r", " ", "s", "e", "a", "r", "c", "h",
      ".">>

\* "I can help with product recommendations, but I cannot provide advice on "
SAFETY_RESPONSE_HEAD ==
    <<"I", " ", "c", "a", "n", " ", "h", "e", "l", "p", " ", "w", "i", "t", "h", " ",
      "p", "r", "o", "d", "u", "c", "t", " ", "r", "e", "c", "o", "m", "m", "e", "n",
      "d", "a", "t", "i", "o", "n", "s", ",", " ", "b", "u", "t", " ", "I", " ", "c",
      "a", "n", "n", "o", "t", " ", "p", "r", "o", "v", "i", "d", "e", " ", "a", "d",
      "v", "i", "c", "e", " ", "o", "n", " ">>

\* ". Please consult manufacturer instructions or a qualified professional."
SAFETY_RESPONSE_TAIL ==
    <<".", " ", "P", "l", "e", "a", "s", "e", " ", "c", "o", "n", "s", "u", "l", "t",
      " ", "m", "a", "n", "u", "f", "a", "c", "t", "u", "r", "e", "r", " ", "i", "n",
      "s", "t", "r", "u", "c", "t", "i", "o", "n", "s", " ", "o", "r", " ", "a", " ",
      "q", "u", "a", "l", "i", "f", "i", "e", "d", " ", "p", "r", "o", "f", "e", "s",
      "s", "i", "o", "n", "a", "l", ".">>

\* "Here are options that fit your request. "
FALLBACK_HEAD ==
    <<"H", "e", "r", "e", " ", "a", "r", "e", " ", "o", "p", "t", "i", "o", "n", "s",
      " ", "t", "h", "a", "t", " ", "f", "i", "t", " ", "y", "o", "u", "r", " ", "r",
      "e", "q", "u", "e", "s", "t", ".", " ">>

\* " See details on your screen."
FALLBACK_TAIL ==
    <<" ", "S", "e", "e", " ", "d", "e", "t", "a", "i", "l", "s", " ", "o", "n", " ",
      "y", "o", "u", "r", " ", "s", "c", "r", "e", "e", "n", ".">>

\* " (see link)"
SEE_LINK ==
    <<" ", "(", "s", "e", "e", " ", "l", "i", "n", "k", ")">>

\* "price N/A"
PRICE_NA ==
    <<"p", "r", "i", "c", "e", " ", "N", "/", "A">>

\* " (em dash) "
EM_DASH_SEP ==
    <<" ", "EMDASH", " ">>

\* "\n\n(Sources: "
SOURCES_HEAD ==
    <<"\n", "\n", "(", "S", "o", "u", "r", "c", "e", "s", ":", " ">>

\* "doc #"
DOC_HASH ==
    <<"d", "o", "c", " ", "#">>

\* "Product"
DEFAULT_PRODUCT_TITLE ==
    <<"P", "r", "o", "d", "u", "c", "t">>

\* "(source"
MARKER_SOURCE ==
    <<"(", "s", "o", "u", "r", "c", "e">>

\* "stainless"
STAINLESS ==
    <<"s", "t", "a", "i", "n", "l", "e", "s", "s">>

\* "stainless steel"
STAINLESS_STEEL ==
    <<"s", "t", "a", "i", "n", "l", "e", "s", "s", " ", "s", "t", "e", "e", "l">>

\* "clean"
CLEAN ==
    <<"c", "l", "e", "a", "n">>

\* "cleaning supplies"
CLEANING_SUPPLIES ==
    <<"c", "l", "e", "a", "n", "i", "n", "g", " ", "s", "u", "p", "p", "l", "i", "e", "s">>

\* "Household Cleaning"
HOUSEHOLD_CLEANING ==
    <<"H", "o", "u", "s", "e", "h", "o", "l", "d", " ", "C", "l", "e", "a", "n", "i", "n", "g">>

\* "under"
UNDER ==
    <<"u", "n", "d", "e", "r">>

\* ", "
COMMA_SPACE ==
    <<",", " ">>

\* "ABCDEFGHIJKLMNOPQRSTUVWXYZ"
UPPERCASE ==
    <<"A", "B", "C", "D", "E", "F", "G", "H", "I", "J", "K", "L", "M", "N", "O", "P",
      "Q", "R", "S", "T", "U", "V", "W", "X", "Y", "Z">>

\* "abcdefghijklmnopqrstuvwxyz"
LOWERCASE ==
    <<"a", "b", "c", "d", "e", "f", "g", "h", "i", "j", "k", "l", "m", "n", "o", "p",
      "q", "r", "s", "t", "u", "v", "w", "x", "y", "z">>

\* "0123456789"
DIGITS ==
    <<"0", "1", "2", "3", "4", "5", "6", "7", "8", "9">>

\* one character of str.lower()
LowerChar(c) ==
    IF \E i \in 1..Len(UPPERCASE) : UPPERCASE[i] = c
    THEN LOWERCASE[CHOOSE i \in 1..Len(UPPERCASE) : UPPERCASE[i] = c]
    ELSE c

\* s.lower()
Lower(s) == [i \in 1..Len(s) |-> LowerChar(s[i])]

\* sub in s
Contains(s, sub) ==
    \E i \in 1..(Len(s) - Len(sub) + 1) : SubSeq(s, i, i + Len(sub) - 1) = sub

\* ContainsAny with all() in the place of any()
ContainsEvery(s, keywords) ==
    \A i \in 1..Len(keywords) : Contains(s, keywords[i])

\* any(k in s for k in keywords)
ContainsAny(s, keywords) ==
    \E i \in 1..Len(keywords) : Contains(s, keywords[i])

IsSpace(c) == c \in {" ", "\n", "\t"}
IsDigit(c) == \E i \in 1..Len(DIGITS) : DIGITS[i] = c
DigitVal(c) == (CHOOSE i \in 1..Len(DIGITS) : DIGITS[i] = c) - 1

\* s.strip()
Strip(s) ==
    IF \A i \in 1..Len(s) : IsSpace(s[i]) THEN <<>>
    ELSE LET first == CHOOSE i \in 1..Len(s) :
                          ~IsSpace(s[i]) /\ \A j \in 1..(i - 1) : IsSpace(s[j])
             last  == CHOOSE i \in 1..Len(s) :
                          ~IsSpace(s[i]) /\ \A j \in (i + 1)..Len(s) : IsSpace(s[j])
         IN SubSeq(s, first, last)

\* s[:n]
Truncate(s, n) == SubSeq(s, 1, Min(n, Len(s)))

\* sep.join(parts)
RECURSIVE Join(_, _)
Join(sep, parts) ==
    IF parts = <<>> THEN <<>>
    ELSE IF Len(parts) = 1 THEN parts[1]
    ELSE parts[1] \o sep \o Join(sep, Tail(parts))

\* s.replace(c, "")
RemoveChar(s, c) == SelectSeq(s, LAMBDA x : x # c)

\* s.split(c)
RECURSIVE Split(_, _)
Split(s, c) ==
    IF \A i \in 1..Len(s) : s[i] # c THEN <<s>>
    ELSE LET k == CHOOSE i \in 1..Len(s) : s[i] = c /\ \A j \in 1..(i - 1) : s[j] # c
         IN <<SubSeq(s, 1, k - 1)>> \o Split(SubSeq(s, k + 1, Len(s)), c)

\* the end of the longest run of digits of s that starts at i (i - 1 when
\* s[i] is no digit)
RECURSIVE DigitsEnd(_, _)
DigitsEnd(s, i) ==
    IF i <= Len(s) /\ IsDigit(s[i]) THEN DigitsEnd(s, i + 1) ELSE i - 1

\* the number written by the digits ds
RECURSIVE DigitsValue(_)
DigitsValue(ds) ==
    IF ds = <<>> THEN 0
    ELSE 10 * DigitsValue(SubSeq(ds, 1, Len(ds) - 1)) + DigitVal(ds[Len(ds)])

\* the digits of the natural number n
RECURSIVE NatStr(_)
NatStr(n) ==
    IF n < 10 THEN <<DIGITS[n + 1]>>
    ELSE NatStr(n \div 10) \o <<DIGITS[(n % 10) + 1]>>

\* float(s) of a str s: the value in thousandths, or ValueError.  The
\* accepted form is digits with an optional fraction, surrounding
\* whitespace allowed; digits past the third decimal are dropped.
ValueError == [exception |-> "ValueError"]

FloatOfStr(s) ==
    LET Fraction(t, e1, e2) ==
            IF e2 # Len(t) THEN ValueError
            ELSE Num(1000 * DigitsValue(SubSeq(t, 1, e1))
                     + DigitsValue(SubSeq(SubSeq(t, e1 + 2, e2) \o <<"0", "0", "0">>, 1, 3)))
        Whole(t, e1) ==
            IF e1 = 0 THEN ValueError
            ELSE IF e1 = Len(t) THEN Num(1000 * DigitsValue(SubSeq(t, 1, e1)))
            ELSE IF t[e1 + 1] # "." THEN ValueError
            ELSE Fraction(t, e1, DigitsEnd(t, e1 + 2))
        Stripped(t) == Whole(t, DigitsEnd(t, 1))
    IN Stripped(Strip(s))

\* str(x) of a float x >= 0: the shortest decimal, with at least one
\* decimal digit
StrOfFloat(n) ==
    LET whole == NatStr(n \div 1000)
        f     == n % 1000
        d3    == <<DIGITS[(f \div 100) + 1], DIGITS[((f \div 10) % 10) + 1], DIGITS[(f % 10) + 1]>>
        keep  == IF f % 10 # 0 THEN 3 ELSE IF f % 100 # 0 THEN 2 ELSE 1
    IN whole \o <<".">> \o SubSeq(d3, 1, keep)

\* f"{v}" of a value an evidence field can hold
Format(v) ==
    CASE DOMAIN v = {"str"}  -> v.str
      [] DOMAIN v = {"num"}  -> StrOfFloat(v.num)
      [] DOMAIN v = {"none"} -> <<"N", "o", "n", "e">>

PyInt(n) == [int |-> n]

\* An exception raised by a stage and not caught inside it
Raise(name) == [exception |-> name]
IsRaise(r) == DOMAIN r = {"exception"}

(***************************************************************************)
(* External calls.  A call of the generative backend either raises (any    *)
(* transport, timeout or parse error of ModelInterface.generate and        *)
(* generate_json) or returns a value; a tool call either fails or returns  *)
(* the result records of the tool.                                         *)
(***************************************************************************)
GenFailure == [ok |-> FALSE, error |-> "Model returned empty response"]
GenValue(v) == [ok |-> TRUE, value |-> v]

ToolFailure == [ok |-> FALSE, error |-> "HTTPStatusError"]
ToolResults(items) == [ok |-> TRUE, results |-> items]

(***************************************************************************)
(* intent_parser                                                           *)
(***************************************************************************)

\* _detect_safety_issues: every pattern found in the lower-cased text, in
\* the order of SAFETY_PATTERNS
_detect_safety_issues(text) ==
    LET text_lower == Lower(text)
        hits == SelectSeq(SAFETY_PATTERNS, LAMBDA pattern : Contains(text_lower, pattern))
    IN List([i \in 1..Len(hits) |-> Str(hits[i])])

\* re.search(r'under\s*\$?(\d+(?:\.\d{1,2})?)', text, re.IGNORECASE) tried
\* at position i: group 1 of the match that starts there, None if none does
BudgetMatchAt(text, i) ==
    IF i + Len(UNDER) - 1 > Len(text) \/ Lower(SubSeq(text, i, i + Len(UNDER) - 1)) # UNDER
    THEN None
    ELSE LET RECURSIVE SkipSpace(_)
             SkipSpace(j) == IF j <= Len(text) /\ IsSpace(text[j]) THEN SkipSpace(j + 1) ELSE j
             afterSpace == SkipSpace(i + Len(UNDER))
             start == IF afterSpace <= Len(text) /\ text[afterSpace] = "$"
                      THEN afterSpace + 1 ELSE afterSpace
             e1 == DigitsEnd(text, start)
             e2 == IF e1 + 2 <= Len(text) /\ text[e1 + 1] = "." /\ IsDigit(text[e1 + 2])
                   THEN (IF e1 + 3 <= Len(text) /\ IsDigit(text[e1 + 3]) THEN e1 + 3 ELSE e1 + 2)
                   ELSE e1
         IN IF e1 < start THEN None ELSE Str(SubSeq(text, start, e2))

\* the leftmost match
BudgetMatch(text) ==
    IF \E i \in 1..Len(text) : BudgetMatchAt(text, i) # None
    THEN BudgetMatchAt(text, CHOOSE i \in 1..Len(text) :
                                 /\ BudgetMatchAt(text, i) # None
                                 /\ \A j \in 1..(i - 1) : BudgetMatchAt(text, j) = None)
    ELSE None

_fallback_intent_extraction(text) ==
    LET budget_match == BudgetMatch(text)
        budget_value == IF budget_match # None THEN FloatOfStr(budget_match.str) ELSE None
        material_constraint ==
            IF Contains(Lower(text), STAINLESS) THEN Str(STAINLESS_STEEL) ELSE None
        category_constraint ==
            IF Contains(Lower(text), CLEAN) THEN Str(CLEANING_SUPPLIES) ELSE None
        requires_live_data == ContainsAny(Lower(text), LIVE_DATA_KEYWORDS)
    IN Dict([task |-> Sym("product_recommendation"),
             constraints |-> Dict([budget |-> budget_value,
                                   material |-> material_constraint,
                                   brand |-> None,
                                   category |-> category_constraint]),
             needs_live |-> Bool(requires_live_data)])

\* _log_fallback with the node name of the classifier kept in the copies
\* of the except clause
_log_fallback_copied(node, e) ==
    [node |-> "intent_classifier", warning |-> "llm_fallback", error |-> e]

\* the entry that the except clause of route, and likewise of plan and of
\* answer, appends before the stage's own entry
_log_fallback(node, e) == [node |-> node, warning |-> "llm_fallback", error |-> e]

\* route: the fields written and the log entries appended, for a
\* transcript and the outcome gen of the generate_json call
route(transcript_value, gen) ==
    LET transcript_text == Strip(Or(transcript_value, Str(<<>>)).str)
    IN IF transcript_text = <<>>
       THEN [intent |-> Dict([task |-> Sym("out_of_scope"),
                              constraints |-> Dict(EmptyDict),
                              needs_live |-> Bool(FALSE)]),
             safety_flags |-> List(<<>>),
             log |-> <<[node |-> "intent_classifier", error |-> "empty_transcript"]>>]
       ELSE IF gen.ok
       THEN LET parsed_response == gen.value
                extracted_intent ==
                    Dict([task |-> GetOr(parsed_response, "task", Sym("product_recommendation")),
                          constraints |-> GetOr(parsed_response, "constraints", Dict(EmptyDict)),
                          needs_live |-> GetOr(parsed_response, "needs_live", Bool(FALSE))])
                detected_safety_flags == GetOr(parsed_response, "safety_flags", List(<<>>))
            IN [intent |-> extracted_intent,
                safety_flags |-> detected_safety_flags,
                log |-> <<[node |-> "intent_classifier",
                           intent |-> extracted_intent,
                           safety_flags |-> detected_safety_flags]>>]
       ELSE LET extracted_intent == _fallback_intent_extraction(transcript_text)
                detected_safety_flags == _detect_safety_issues(transcript_text)
            IN [intent |-> extracted_intent,
                safety_flags |-> detected_safety_flags,
                log |-> <<_log_fallback("intent_classifier", gen.error),
                          [node |-> "intent_classifier",
                           intent |-> extracted_intent,
                           safety_flags |-> detected_safety_flags]>>]

(***************************************************************************)
(* query_strategist                                                        *)
(***************************************************************************)
DEFAULT_FIELDS ==
    List(<<Sym("sku"), Sym("title"), Sym("price"), Sym("rating"), Sym("brand"), Sym("ingredients")>>)
DEFAULT_TOP_K == 5

RAG_SEARCH_TOOL == Sym("rag.search")
WEB_SEARCH_TOOL == Sym("web.search")

_generate_fallback_plan(query_text, intent_dict, constraints) ==
    LET query_lower == Lower(query_text.str)
        withCategory ==
            IF ContainsAny(query_lower, CLEANING_KEYWORDS)
            THEN Put(EmptyDict, "category", Str(HOUSEHOLD_CLEANING))
            ELSE EmptyDict
        budget_limit == Get(constraints, "budget")
        filter_criteria ==
            IF Truthy(budget_limit)
            THEN Put(withCategory, "price", Dict(Put(EmptyDict, "$lte", budget_limit)))
            ELSE withCategory
        requires_live == GetOr(intent_dict, "needs_live", Bool(FALSE))
        data_sources ==
            IF Truthy(requires_live)
            THEN <<RAG_SEARCH_TOOL, WEB_SEARCH_TOOL>>
            ELSE <<RAG_SEARCH_TOOL>>
    IN Dict([sources |-> List(data_sources),
             filters |-> Dict(filter_criteria),
             query_text |-> query_text,
             fields |-> DEFAULT_FIELDS,
             ranking |-> IF Truthy(budget_limit) THEN Sym("price_asc") ELSE Sym("relevance"),
             top_k |-> PyInt(DEFAULT_TOP_K),
             comparison_strategy |-> IF Truthy(requires_live) THEN Sym("price_check")
                                                              ELSE Sym("none")])

\* len(v) raises TypeError for a value that has no length
HasLen(v) == DOMAIN v \in {{"str"}, {"list"}, {"dict"}}

\* plan: the plan written and the log entries appended, for the outcome gen
\* of the generate_json call
plan_stage(intent_value, transcript_value, gen) ==
    LET parsed_intent == Or(intent_value, Dict(EmptyDict)).dict
        constraint_params == Or(Get(parsed_intent, "constraints"), Dict(EmptyDict)).dict
        user_query == transcript_value
        plan_response == gen.value
        generated_plan ==
            Dict([sources |-> GetOr(plan_response, "sources", List(<<RAG_SEARCH_TOOL>>)),
                  filters |-> GetOr(plan_response, "filters", Dict(EmptyDict)),
                  query_text |-> GetOr(plan_response, "query_text", user_query),
                  fields |-> GetOr(plan_response, "fields",
                                   List(<<Sym("sku"), Sym("title"), Sym("price")>>)),
                  ranking |-> GetOr(plan_response, "ranking", Sym("relevance")),
                  top_k |-> GetOr(plan_response, "top_k", PyInt(DEFAULT_TOP_K)),
                  comparison_strategy |-> GetOr(plan_response, "comparison_strategy", Sym("none"))])
        failure == IF ~gen.ok THEN gen.error
                   ELSE IF ~HasLen(generated_plan.dict.sources) THEN "TypeError"
                   ELSE "none"
    IN IF failure = "none"
       THEN [plan |-> generated_plan,
             log |-> <<[node |-> "query_planner", plan |-> generated_plan]>>]
       ELSE LET execution_plan ==
                    _generate_fallback_plan(user_query, parsed_intent, constraint_params)
            IN [plan |-> execution_plan,
                log |-> <<_log_fallback("query_planner", failure),
                          [node |-> "query_planner", plan |-> execution_plan]>>]

(***************************************************************************)
(* data_fetcher                                                            *)
(***************************************************************************)
DEFAULT_RESULT_LIMIT == 5
WEB_RESULT_LIMIT == 5

\* _invoke_tool: the results of the tool, [] when the call failed
_invoke_tool(outcome) == IF outcome.ok THEN outcome.results ELSE <<>>

\* x in a list
InList(x, l) == \E i \in 1..Len(l.list) : l.list[i] = x

\* _execute_rag_search: the results and the log metadata, or the exception
\* raised while the payload is built
_execute_rag_search(plan_dict, fallback_query, outcome) ==
    LET filters == GetOr(plan_dict, "filters", Dict(EmptyDict))
    IN IF ~IsDict(filters) THEN Raise("AttributeError")
       ELSE LET filter_params == Del(filters.dict, "category")
                search_params ==
                    [query |-> GetOr(plan_dict, "query_text", fallback_query),
                     top_k |-> GetOr(plan_dict, "top_k", PyInt(DEFAULT_RESULT_LIMIT)),
                     filters |-> Dict(filter_params)]
                results == _invoke_tool(outcome)
            IN [results |-> results,
                metadata |-> [tool |-> "rag.search",
                              payload |-> search_params,
                              results_count |-> Len(results)]]

\* _execute_web_search
_execute_web_search(plan_dict, fallback_query, outcome) ==
    LET top_k == GetOr(plan_dict, "top_k", PyInt(DEFAULT_RESULT_LIMIT))
    IN IF DOMAIN top_k # {"int"} THEN Raise("TypeError")
       ELSE LET search_params ==
                    [query |-> GetOr(plan_dict, "query_text", fallback_query),
                     top_k |-> PyInt(Min(top_k.int, WEB_RESULT_LIMIT))]
                results == _invoke_tool(outcome)
            IN [results |-> results,
                metadata |-> [tool |-> "web.search",
                              payload |-> search_params,
                              results_count |-> Len(results)]]

\* retrieve: the evidence written and the log entry appended, or the
\* exception that leaves the stage
retrieve(plan_value, transcript_value, ragOutcome, webOutcome) ==
    LET query_plan == Or(plan_value, Dict(EmptyDict)).dict
        data_sources == GetOr(query_plan, "sources", List(<<RAG_SEARCH_TOOL>>))
        useRag == InList(RAG_SEARCH_TOOL, data_sources)
        useWeb == InList(WEB_SEARCH_TOOL, data_sources)
        rag == _execute_rag_search(query_plan, transcript_value, ragOutcome)
        web == _execute_web_search(query_plan, transcript_value, webOutcome)
    IN IF useRag /\ IsRaise(rag) THEN rag
       ELSE IF useWeb /\ IsRaise(web) THEN web
       ELSE LET withRag == IF useRag THEN Put(EmptyDict, "rag", List(rag.results)) ELSE EmptyDict
                collected_evidence ==
                    IF useWeb THEN Put(withRag, "web", List(web.results)) ELSE withRag
                execution_log == (IF useRag THEN <<rag.metadata>> ELSE <<>>)
                                 \o (IF useWeb THEN <<web.metadata>> ELSE <<>>)
            IN [evidence |-> Dict(collected_evidence),
                log |-> <<[node |-> "data_retriever",
                           tool_calls |-> execution_log,
                           total_results |-> [source \in DOMAIN collected_evidence |->
                                                 Len(collected_evidence[source].list)]]>>]

(***************************************************************************)
(* response_synthesizer                                                    *)
(***************************************************************************)
MAX_EVIDENCE_ITEMS == 5
MAX_FALLBACK_ITEMS == 3
TITLE_TRUNCATE_LENGTH == 150
FALLBACK_TITLE_LENGTH == 80

\* l[:n] of a list
Take(l, n) == SubSeq(l, 1, Min(n, Len(l)))

\* _build_evidence_context builds the prompt, which only the backend reads;
\* what the stage can observe is whether it raises: slicing the
\* ingredients or the snippet raises TypeError when the field is None
_build_evidence_context_raises(rag_data, web_data) ==
    \/ \E i \in 1..Len(Take(rag_data, MAX_EVIDENCE_ITEMS)) :
           ~IsStr(GetOr(rag_data[i], "ingredients", Str(<<"N", "/", "A">>)))
    \/ \E i \in 1..Len(Take(web_data, MAX_EVIDENCE_ITEMS)) :
           ~IsStr(GetOr(web_data[i], "snippet", Str(<<"N", "/", "A">>)))

\* some item.get("title", default)[:n] raises TypeError
TitleRaises(items) ==
    \E i \in 1..Len(items) : ~IsStr(GetOr(items[i], "title", Str(<<>>)))

\* _compile_citations with the two loops reading each other's list
_compile_citations_swapped(rag_data, web_data) ==
    LET rag == Take(web_data, MAX_EVIDENCE_ITEMS)
        web == Take(rag_data, MAX_EVIDENCE_ITEMS)
    IN [i \in 1..Len(rag) |->
           [doc_id |-> Or(Get(rag[i], "doc_id"), Get(rag[i], "sku")),
            source |-> Sym("private"),
            title  |-> Str(Truncate(GetOr(rag[i], "title", Str(<<>>)).str, TITLE_TRUNCATE_LENGTH))]]
       \o
       [i \in 1..Len(web) |->
           [url    |-> Get(web[i], "url"),
            source |-> Sym("web"),
            title  |-> Str(Truncate(GetOr(web[i], "title", Str(<<>>)).str, TITLE_TRUNCATE_LENGTH))]]

_compile_citations(rag_data, web_data) ==
    LET rag == Take(rag_data, MAX_EVIDENCE_ITEMS)
        web == Take(web_data, MAX_EVIDENCE_ITEMS)
    IN [i \in 1..Len(rag) |->
           [doc_id |-> Or(Get(rag[i], "doc_id"), Get(rag[i], "sku")),
            source |-> Sym("private"),
            title  |-> Str(Truncate(GetOr(rag[i], "title", Str(<<>>)).str, TITLE_TRUNCATE_LENGTH))]]
       \o
       [i \in 1..Len(web) |->
           [url    |-> Get(web[i], "url"),
            source |-> Sym("web"),
            title  |-> Str(Truncate(GetOr(web[i], "title", Str(<<>>)).str, TITLE_TRUNCATE_LENGTH))]]

\* FallbackItems with the catalog preferred to the web
FallbackItems_catalog_first(rag_data, web_data) ==
    IF rag_data # <<>> THEN Take(rag_data, MAX_FALLBACK_ITEMS)
                       ELSE Take(web_data, MAX_FALLBACK_ITEMS)

\* the items _generate_fallback_response lists
FallbackItems(rag_data, web_data) ==
    IF web_data # <<>> THEN Take(web_data, MAX_FALLBACK_ITEMS)
                       ELSE Take(rag_data, MAX_FALLBACK_ITEMS)

_generate_fallback_response(rag_data, web_data) ==
    LET source_items == FallbackItems(rag_data, web_data)
        item_title(item) ==
            Truncate(GetOr(item, "title", Str(DEFAULT_PRODUCT_TITLE)).str, FALLBACK_TITLE_LENGTH)
        part(idx) ==
            LET item == source_items[idx]
            IN IF "url" \in DOMAIN item
               THEN NatStr(idx) \o <<".", " ">> \o item_title(item) \o SEE_LINK
               ELSE NatStr(idx) \o <<".", " ">> \o item_title(item) \o EM_DASH_SEP
                    \o (IF Truthy(Get(item, "price"))
                        THEN <<"$">> \o Format(Get(item, "price"))
                        ELSE PRICE_NA)
        citation(idx) ==
            LET item == source_items[idx]
            IN IF "url" \in DOMAIN item
               THEN [url |-> Get(item, "url"), source |-> Sym("web")]
               ELSE [doc_id |-> Or(Get(item, "doc_id"), Get(item, "sku")),
                     source |-> Sym("private")]
        response_parts == [idx \in 1..Len(source_items) |-> part(idx)]
    IN [answer |-> Str(FALLBACK_HEAD \o Join(<<" ">>, response_parts) \o FALLBACK_TAIL),
        citations |-> [idx \in 1..Len(source_items) |-> citation(idx)]]

\* no_results with the second "not" dropped
no_results_inverted(rag_results, web_results) == rag_results = <<>> /\ web_results # <<>>

\* "not rag_results and not web_results": no source returned any item
no_results(rag_results, web_results) == rag_results = <<>> /\ web_results = <<>>

\* answer: the answer and citations written and the log entries appended,
\* or the exception that leaves the stage, for the outcome gen of the
\* generate call
answer_stage(evidence_value, gen) ==
    LET evidence_data == Or(evidence_value, Dict(EmptyDict)).dict
        rag_results == GetOr(evidence_data, "rag", List(<<>>)).list
        web_results == GetOr(evidence_data, "web", List(<<>>)).list
        failure ==
            IF ~gen.ok THEN gen.error
            ELSE IF TitleRaises(Take(rag_results, MAX_EVIDENCE_ITEMS)
                                \o Take(web_results, MAX_EVIDENCE_ITEMS)) THEN "TypeError"
            ELSE IF ~IsStr(gen.value) THEN "AttributeError"
            ELSE "none"
        result_entry(citation_list) ==
            [node |-> "response_generator",
             rag_count |-> Len(rag_results),
             web_count |-> Len(web_results),
             citations_count |-> Len(citation_list)]
    IN IF no_results(rag_results, web_results)
       THEN [answer |-> Str(NO_RESULTS_ANSWER),
             citations |-> List(<<>>),
             log |-> <<[node |-> "response_generator", status |-> "no_results"]>>]
       ELSE IF _build_evidence_context_raises(rag_results, web_results)
       THEN Raise("TypeError")
       ELSE IF failure = "none"
       THEN LET citation_list == _compile_citations(rag_results, web_results)
            IN [answer |-> Str(Strip(gen.value.str)),
                citations |-> List(citation_list),
                log |-> <<result_entry(citation_list)>>]
       ELSE IF TitleRaises(FallbackItems(rag_results, web_results))
       THEN Raise("TypeError")
       ELSE LET fallback == _generate_fallback_response(rag_results, web_results)
            IN [answer |-> fallback.answer,
                citations |-> List(fallback.citations),
                log |-> <<_log_fallback("response_generator", failure),
                          result_entry(fallback.citations)>>]

(***************************************************************************)
(* quality_validator                                                       *)
(***************************************************************************)
ANSWER_MIN_LENGTH == 20
ANSWER_MAX_LENGTH == 500
MAX_CITATIONS_DISPLAY == 5
TOP_RAG_CITATIONS == 3
TOP_WEB_CITATIONS == 2
\* 0.01, in thousandths
PRICE_TOLERANCE == 10

_generate_safety_response(safety_issues) ==
    LET issue_list == Join(COMMA_SPACE, [i \in 1..Len(safety_issues) |-> Format(safety_issues[i])])
    IN SAFETY_RESPONSE_HEAD \o issue_list \o SAFETY_RESPONSE_TAIL

_answer_acknowledges_empty_results(answer_text) ==
    ContainsAny(Lower(answer_text), acknowledgment_phrases)

\* _add_rag_citations without the already_cited test
RECURSIVE _add_rag_citations_nodedup(_, _)
_add_rag_citations_nodedup(existing_citations, rag_results) ==
    IF rag_results = <<>> THEN existing_citations
    ELSE LET item == Head(rag_results)
             document_id == Or(Get(item, "doc_id"), Get(item, "sku"))
             next == IF Truthy(document_id)
                     THEN Append(existing_citations,
                                 [doc_id |-> document_id, source |-> Sym("private")])
                     ELSE existing_citations
         IN _add_rag_citations_nodedup(next, Tail(rag_results))

\* _add_rag_citations: one citation for each of the first TOP_RAG_CITATIONS
\* items that has an id no citation of the list carries yet
RECURSIVE _add_rag_citations(_, _)
_add_rag_citations(existing_citations, rag_results) ==
    IF rag_results = <<>> THEN existing_citations
    ELSE LET item == Head(rag_results)
             document_id == Or(Get(item, "doc_id"), Get(item, "sku"))
             already_cited ==
                 \E i \in 1..Len(existing_citations) :
                     Get(existing_citations[i], "doc_id") = document_id
             next == IF Truthy(document_id) /\ ~already_cited
                     THEN Append(existing_citations,
                                 [doc_id |-> document_id, source |-> Sym("private")])
                     ELSE existing_citations
         IN _add_rag_citations(next, Tail(rag_results))

RECURSIVE _add_web_citations(_, _)
_add_web_citations(existing_citations, web_results) ==
    IF web_results = <<>> THEN existing_citations
    ELSE LET item == Head(web_results)
             result_url == Get(item, "url")
             already_cited ==
                 \E i \in 1..Len(existing_citations) :
                     Get(existing_citations[i], "url") = result_url
             next == IF Truthy(result_url) /\ ~already_cited
                     THEN Append(existing_citations,
                                 [url |-> result_url, source |-> Sym("web")])
                     ELSE existing_citations
         IN _add_web_citations(next, Tail(web_results))

_validate_and_fix_citations(cits, evidence_dict) ==
    LET has_rag_citation == \E i \in 1..Len(cits) : Get(cits[i], "source") = Sym("private")
        has_web_citation == \E i \in 1..Len(cits) : Get(cits[i], "source") = Sym("web")
        rag_evidence == GetOr(evidence_dict, "rag", List(<<>>)).list
        web_evidence == GetOr(evidence_dict, "web", List(<<>>)).list
        fixRag == rag_evidence # <<>> /\ ~has_rag_citation
        fixWeb == web_evidence # <<>> /\ ~has_web_citation
        afterRag == IF fixRag
                    THEN _add_rag_citations(cits, Take(rag_evidence, TOP_RAG_CITATIONS))
                    ELSE cits
        afterWeb == IF fixWeb
                    THEN _add_web_citations(afterRag, Take(web_evidence, TOP_WEB_CITATIONS))
                    ELSE afterRag
    IN [citations |-> afterWeb,
        status |-> IF fixRag THEN "fixed" ELSE IF has_rag_citation THEN "pass" ELSE "warn",
        issues |-> (IF fixRag THEN <<[issue |-> "missing_private_citations"]>> ELSE <<>>)
                   \o (IF fixWeb THEN <<[issue |-> "missing_web_citations"]>> ELSE <<>>)]

\* re.findall(r'\$\d+\.?\d*', text) from position i on: the matches, left
\* to right, none overlapping another
RECURSIVE FindPrices(_, _)
FindPrices(text, i) ==
    LET starts == { k \in i..Len(text) : text[k] = "$" /\ DigitsEnd(text, k + 1) > k }
    IN IF starts = {} THEN <<>>
       ELSE LET k  == CHOOSE x \in starts : \A y \in starts : x <= y
                e1 == DigitsEnd(text, k + 1)
                e2 == IF e1 + 1 <= Len(text) /\ text[e1 + 1] = "."
                      THEN DigitsEnd(text, e1 + 2)
                      ELSE e1
            IN <<SubSeq(text, k, e2)>> \o FindPrices(text, e2 + 1)

\* _extract_evidence_prices: "$" and the price of every item that has a
\* truthy one, catalog items first
_extract_evidence_prices(evidence_dict) ==
    LET items == GetOr(evidence_dict, "rag", List(<<>>)).list
                 \o GetOr(evidence_dict, "web", List(<<>>)).list
        priced == SelectSeq(items, LAMBDA item : Truthy(Get(item, "price")))
    IN [i \in 1..Len(priced) |-> <<"$">> \o Format(Get(priced[i], "price"))]

\* what the loop body of _find_ungrounded_prices does with one mentioned
\* price: any() walks the evidence prices in order and stops at the first
\* one within the tolerance; a price that float() rejects raises ValueError
\* out of any(), and the except clause skips the mentioned price
GroundingOf(mentioned_price, evidence_prices) ==
    LET Verdict(mentioned_value, values) ==
            LET bad(i) == values[i] = ValueError
                hit(i) == ~bad(i) /\ Abs(mentioned_value.num - values[i].num) < PRICE_TOLERANCE
            IN IF mentioned_value = ValueError THEN "skipped"
               ELSE IF \E i \in 1..Len(values) : hit(i) /\ \A j \in 1..(i - 1) : ~bad(j)
               THEN "grounded"
               ELSE IF \E i \in 1..Len(values) : bad(i) THEN "skipped"
               ELSE "ungrounded"
    IN Verdict(FloatOfStr(RemoveChar(mentioned_price, "$")),
               [i \in 1..Len(evidence_prices) |->
                    FloatOfStr(RemoveChar(evidence_prices[i], "$"))])

_find_ungrounded_prices(mentioned_prices, evidence_prices) ==
    SelectSeq(mentioned_prices,
              LAMBDA mentioned_price : GroundingOf(mentioned_price, evidence_prices) = "ungrounded")

_verify_price_grounding(answer_text, evidence_dict) ==
    LET mentioned_prices == FindPrices(answer_text, 1)
        evidence_prices == _extract_evidence_prices(evidence_dict)
        ungrounded_prices == _find_ungrounded_prices(mentioned_prices, evidence_prices)
    IN IF mentioned_prices = <<>> \/ ungrounded_prices = <<>>
       THEN [status |-> "pass", issues |-> <<>>]
       ELSE [status |-> "warn",
             issues |-> <<[issue |-> "potentially_ungrounded_prices",
                           prices |-> ungrounded_prices]>>]

_check_answer_coherence(answer_text) ==
    IF Len(answer_text) < ANSWER_MIN_LENGTH
    THEN [status |-> "warn", issues |-> <<[issue |-> "answer_too_short"]>>]
    ELSE IF Len(answer_text) > ANSWER_MAX_LENGTH
    THEN [status |-> "warn", issues |-> <<[issue |-> "answer_too_long"]>>]
    ELSE [status |-> "pass", issues |-> <<>>]

_extract_domain(url) ==
    IF Contains(url, <<"/">>)
    THEN LET parts == Split(url, "/")
         IN IF Len(parts) > 2 THEN parts[3] ELSE url
    ELSE url

\* _build_citation_suffix without the cut to MAX_CITATIONS_DISPLAY
_build_citation_suffix_uncapped(cits) ==
    LET named == SelectSeq(cits, LAMBDA c : Truthy(Get(c, "doc_id")) \/ Truthy(Get(c, "url")))
        citation_parts ==
            [i \in 1..Len(named) |->
                IF Truthy(Get(named[i], "doc_id"))
                THEN DOC_HASH \o Format(Get(named[i], "doc_id"))
                ELSE _extract_domain(Get(named[i], "url").str)]
    IN IF citation_parts = <<>> THEN <<>>
       ELSE SOURCES_HEAD \o Join(COMMA_SPACE, citation_parts) \o <<")">>

_build_citation_suffix(cits) ==
    LET shown == Take(cits, MAX_CITATIONS_DISPLAY)
        named == SelectSeq(shown, LAMBDA c : Truthy(Get(c, "doc_id")) \/ Truthy(Get(c, "url")))
        citation_parts ==
            [i \in 1..Len(named) |->
                IF Truthy(Get(named[i], "doc_id"))
                THEN DOC_HASH \o Format(Get(named[i], "doc_id"))
                ELSE _extract_domain(Get(named[i], "url").str)]
    IN IF citation_parts = <<>> THEN <<>>
       ELSE SOURCES_HEAD \o Join(COMMA_SPACE, citation_parts) \o <<")">>

\* _ensure_citation_format without the has_citation_markers test
_ensure_citation_format_unmarked(answer_text, cits) ==
    IF cits = <<>>
    THEN [answer |-> answer_text, status |-> "pass"]
    ELSE [answer |-> answer_text \o _build_citation_suffix(cits), status |-> "fixed"]

_ensure_citation_format(answer_text, cits) ==
    LET has_citation_markers ==
            Contains(Lower(answer_text), MARKER_SOURCE) \/ Contains(Lower(answer_text), DOC_HASH)
    IN IF cits = <<>> \/ has_citation_markers
       THEN [answer |-> answer_text, status |-> "pass"]
       ELSE [answer |-> answer_text \o _build_citation_suffix(cits), status |-> "fixed"]

\* critique: the answer and citations the state holds when the validator
\* returns, and the log entry it appends
critique(answer_value, citations_value, safety_value, evidence_value) ==
    LET generated_answer == IF answer_value = None THEN <<>> ELSE answer_value.str
        answer_citations == Or(citations_value, List(<<>>)).list
        detected_safety_issues == Or(safety_value, List(<<>>)).list
        retrieved_evidence == Or(evidence_value, Dict(EmptyDict)).dict
    IN IF detected_safety_issues # <<>>
       THEN [answer |-> Str(_generate_safety_response(detected_safety_issues)),
             citations |-> citations_value,
             log |-> <<[node |-> "quality_evaluator",
                        checks |-> [safety |-> "fail"],
                        safety_flags |-> detected_safety_issues]>>]
       ELSE
       LET has_evidence ==
               \E source \in DOMAIN retrieved_evidence : Truthy(retrieved_evidence[source])
           unacknowledged ==
               ~has_evidence /\ ~_answer_acknowledges_empty_results(generated_answer)
           \* state["answer"] after the evidence check
           answer_after_evidence_check ==
               IF unacknowledged THEN EMPTY_EVIDENCE_ANSWER ELSE generated_answer
           citation_check_result ==
               _validate_and_fix_citations(answer_citations, retrieved_evidence)
           grounding_result == _verify_price_grounding(generated_answer, retrieved_evidence)
           coherence_result == _check_answer_coherence(generated_answer)
           citation_format_result ==
               _ensure_citation_format(generated_answer, citation_check_result.citations)
           checks == [safety |-> "pass",
                      evidence |-> IF has_evidence THEN "pass" ELSE "warn",
                      citations |-> citation_check_result.status,
                      grounding |-> grounding_result.status,
                      coherence |-> coherence_result.status,
                      citation_format |-> citation_format_result.status]
           validation_status ==
               IF \E c \in DOMAIN checks : checks[c] = "fail" THEN "fail"
               ELSE IF \E c \in DOMAIN checks : checks[c] = "warn" THEN "warn"
               ELSE IF unacknowledged THEN "fail"
               ELSE "pass"
           detected_issues ==
               (IF unacknowledged THEN <<[issue |-> "empty_evidence_not_acknowledged"]>> ELSE <<>>)
               \o citation_check_result.issues
               \o grounding_result.issues
               \o coherence_result.issues
       \* state["answer"] is assigned once more at the end, from the result
       \* of _ensure_citation_format(generated_answer, ...): that assignment
       \* replaces answer_after_evidence_check
       IN [answer |-> Str(citation_format_result.answer),
           citations |-> List(citation_check_result.citations),
           log |-> <<[node |-> "quality_evaluator",
                      checks |-> checks,
                      status |-> validation_status,
                      issues |-> detected_issues]>>]

(***************************************************************************)
(* The inputs of a request: transcripts, the outcomes of the generative    *)
(* calls and the outcomes of the tool calls.                               *)
(***************************************************************************)
\* ""
T_EMPTY ==
    <<>>

\* "  "
T_BLANK ==
    <<" ", " ">>

\* "Can I DRINK it"
T_DRINK ==
    <<"C", "a", "n", " ", "I", " ", "D", "R", "I", "N", "K", " ", "i", "t">>

\* "eat or drink it"
T_EAT_DRINK ==
    <<"e", "a", "t", " ", "o", "r", " ", "d", "r", "i", "n", "k", " ", "i", "t">>

\* "soap under $12"
T_BUDGET ==
    <<"s", "o", "a", "p", " ", "u", "n", "d", "e", "r", " ", "$", "1", "2">>

\* "price now"
T_LIVE ==
    <<"p", "r", "i", "c", "e", " ", "n", "o", "w">>

\* "Find eco-friendly dish soap under $12"
T_SCENARIO ==
    <<"F", "i", "n", "d", " ", "e", "c", "o", "-", "f", "r", "i", "e", "n", "d", "l",
      "y", " ", "d", "i", "s", "h", " ", "s", "o", "a", "p", " ", "u", "n", "d", "e",
      "r", " ", "$", "1", "2">>

\* "mop under $0"
T_ZERO ==
    <<"m", "o", "p", " ", "u", "n", "d", "e", "r", " ", "$", "0">>

\* "ingestion"
S_INGESTION ==
    <<"i", "n", "g", "e", "s", "t", "i", "o", "n">>

\* "soap"
S_SOAP ==
    <<"s", "o", "a", "p">>

\* "d1"
S_D1 ==
    <<"d", "1">>

\* "d2"
S_D2 ==
    <<"d", "2">>

\* "d3"
S_D3 ==
    <<"d", "3">>

\* "d4"
S_D4 ==
    <<"d", "4">>

\* "s1"
S_SKU1 ==
    <<"s", "1">>

\* "Pan"
S_PAN ==
    <<"P", "a", "n">>

\* "Dish Soap"
S_SOAP_TITLE ==
    <<"D", "i", "s", "h", " ", "S", "o", "a", "p">>

\* "Mop"
S_MOP ==
    <<"M", "o", "p">>

\* "Cup"
S_CUP ==
    <<"C", "u", "p">>

\* "https://a.com/dp/1"
S_URL1 ==
    <<"h", "t", "t", "p", "s", ":", "/", "/", "a", ".", "c", "o", "m", "/", "d", "p", "/", "1">>

\* "https://b.com/dp/2"
S_URL2 ==
    <<"h", "t", "t", "p", "s", ":", "/", "/", "b", ".", "c", "o", "m", "/", "d", "p", "/", "2">>

\* "https://a.com/dp/3"
S_URL3 ==
    <<"h", "t", "t", "p", "s", ":", "/", "/", "a", ".", "c", "o", "m", "/", "d", "p", "/", "3">>

\* "N/A"
S_NA ==
    <<"N", "/", "A">>

\* "$12.99"
S_PRICE_1299 ==
    <<"$", "1", "2", ".", "9", "9">>

\* "x"
S_SNIPPET ==
    <<"x">>

\* " Try Pan for $12.99. "
A_GROUNDED ==
    <<" ", "T", "r", "y", " ", "P", "a", "n", " ", "f", "o", "r", " ", "$", "1", "2", ".", "9", "9", ".", " ">>

\* "Soap costs $99 (Source: a.com)"
A_MARKED ==
    <<"S", "o", "a", "p", " ", "c", "o", "s", "t", "s", " ", "$", "9", "9", " ", "(",
      "S", "o", "u", "r", "c", "e", ":", " ", "a", ".", "c", "o", "m", ")">>

\* "  "
A_BLANK ==
    <<" ", " ">>

\* ""
V_EMPTY ==
    <<>>

\* "Try the Pan, a good pick."
V_PLAIN ==
    <<"T", "r", "y", " ", "t", "h", "e", " ", "P", "a", "n", ",", " ", "a", " ", "g",
      "o", "o", "d", " ", "p", "i", "c", "k", ".">>

\* "Pan $12.99, Mop $99"
V_PRICES ==
    <<"P", "a", "n", " ", "$", "1", "2", ".", "9", "9", ",", " ", "M", "o", "p", " ", "$", "9", "9">>

\* "See Doc #d1"
V_DOC ==
    <<"S", "e", "e", " ", "D", "o", "c", " ", "#", "d", "1">>

\* "No results"
V_ACK ==
    <<"N", "o", " ", "r", "e", "s", "u", "l", "t", "s">>

Transcripts == {T_EMPTY, T_BLANK, T_DRINK, T_EAT_DRINK, T_BUDGET, T_LIVE, T_SCENARIO, T_ZERO}

\* outcomes of generate_json in route: a failure, or the parsed object
IntentGenerations ==
    { GenFailure,
      GenValue(EmptyDict),
      GenValue([task |-> Sym("product_recommendation"),
                constraints |-> Dict(Put(EmptyDict, "budget", Num(12000))),
                needs_live |-> Bool(TRUE),
                safety_flags |-> List(<<>>)]),
      GenValue([safety_flags |-> List(<<Str(S_INGESTION)>>)]),
      GenValue([constraints |-> None, needs_live |-> None, safety_flags |-> None]) }

\* outcomes of generate_json in plan
PlanGenerations ==
    { GenFailure,
      GenValue(EmptyDict),
      GenValue([sources |-> List(<<RAG_SEARCH_TOOL, WEB_SEARCH_TOOL>>),
                filters |-> Dict([category |-> Str(HOUSEHOLD_CLEANING),
                                  price |-> Dict(Put(EmptyDict, "$lte", Num(12000)))]),
                query_text |-> Str(S_SOAP),
                ranking |-> Sym("price_asc"),
                top_k |-> PyInt(10),
                comparison_strategy |-> Sym("price_check")]),
      GenValue([sources |-> List(<<WEB_SEARCH_TOOL>>)]),
      GenValue([filters |-> None]),
      GenValue([sources |-> None]),
      GenValue([sources |-> List(<<RAG_SEARCH_TOOL, WEB_SEARCH_TOOL>>), top_k |-> None]),
      \* "query_text": "" with a category filter among the filters
      GenValue([sources |-> List(<<RAG_SEARCH_TOOL, WEB_SEARCH_TOOL>>),
                filters |-> Dict([category |-> Str(HOUSEHOLD_CLEANING),
                                  brand |-> Str(S_SOAP)]),
                query_text |-> Str(<<>>),
                top_k |-> PyInt(3)]) }

\* result records of rag_tool.rag_search: doc_id is the id of the indexed
\* document, price a float (0.0 when the catalog has none)
CatalogItem(doc_id, sku, title, price) ==
    [doc_id |-> Str(doc_id), sku |-> sku, title |-> Str(title), price |-> Num(price),
     ingredients |-> Str(<<>>)]

\* result records of web_tool.web_search: price is "N/A" or the scraped text
WebItem(url, title, price) ==
    [url |-> Str(url), title |-> Str(title), snippet |-> Str(S_SNIPPET), price |-> Str(price)]

CatalogOutcomes ==
    { ToolFailure,
      ToolResults(<<>>),
      ToolResults(<<CatalogItem(S_D1, Str(S_SKU1), S_PAN, 12990)>>),
      ToolResults(<<CatalogItem(S_D1, Str(S_SKU1), S_PAN, 12990),
                    CatalogItem(S_D2, None, S_SOAP_TITLE, 0),
                    CatalogItem(S_D3, None, S_MOP, 5500),
                    CatalogItem(S_D4, None, S_CUP, 3000)>>) }

WebOutcomes ==
    { ToolFailure,
      ToolResults(<<>>),
      ToolResults(<<WebItem(S_URL1, S_PAN, S_NA)>>),
      ToolResults(<<WebItem(S_URL1, S_PAN, S_PRICE_1299),
                    WebItem(S_URL2, S_SOAP_TITLE, S_NA),
                    WebItem(S_URL3, S_MOP, S_NA)>>),
      \* "title": entry.get("title") of a search hit that has no title
      ToolResults(<<[url |-> Str(S_URL1), title |-> None, snippet |-> Str(S_SNIPPET),
                     price |-> Str(S_NA)]>>) }

\* outcomes of generate in answer: a failure, a text, or no text
AnswerGenerations ==
    { GenFailure,
      GenValue(Str(A_GROUNDED)),
      GenValue(Str(A_MARKED)),
      GenValue(Str(A_BLANK)),
      GenValue(None) }

(***************************************************************************)
(* The workflow graph: intent_classifier -> query_planner ->              *)
(* data_retriever -> response_generator -> quality_evaluator -> END.       *)
(* An exception that a stage does not catch leaves the graph.              *)
(***************************************************************************)
INTENT_CLASSIFIER == "intent_classifier"
QUERY_PLANNER == "query_planner"
DATA_RETRIEVER == "data_retriever"
RESPONSE_GENERATOR == "response_generator"
QUALITY_EVALUATOR == "quality_evaluator"
END == "END"
RAISED == "raised"

\* no thread has called get_llm_client: the module as imported
NoClientCall ==
    /\ _model_interface_instance = None
    /\ instances = 0
    /\ thread_pc = <<>>
    /\ thread_instance = <<>>
    /\ thread_calls = <<>>
    /\ received = {}

\* reconcile is not called
NoReconcileCall ==
    /\ rag_items = None
    /\ web_items = None
    /\ token_set_ratio = <<>>
    /\ reconciled_results = None

\* the tool calls of retrieve are not followed one by one
NoFetchCall ==
    /\ tool_pc = <<>>
    /\ tool_outcome = <<>>
    /\ tool_evidence = <<>>
    /\ tool_log = <<>>

\* agent_graph.invoke({"transcript": final_query, "log": []})
Init ==
    /\ NoClientCall
    /\ NoReconcileCall
    /\ NoFetchCall
    /\ pc = INTENT_CLASSIFIER
    /\ transcript \in {Str(t) : t \in Transcripts}
    /\ intent = None
    /\ plan = None
    /\ evidence = None
    /\ answer = None
    /\ citations = None
    /\ safety_flags = None
    /\ log = <<>>
    /\ error = None

Route ==
    /\ pc = INTENT_CLASSIFIER
    /\ \E gen \in IntentGenerations :
           LET r == route(transcript, gen)
           IN /\ intent' = r.intent
              /\ safety_flags' = r.safety_flags
              /\ log' = log \o r.log
    /\ pc' = QUERY_PLANNER
    /\ UNCHANGED <<transcript, plan, evidence, answer, citations, error>>
    /\ UNCHANGED <<clientVars, reconcileVars, fetchVars>>

Plan ==
    /\ pc = QUERY_PLANNER
    /\ \E gen \in PlanGenerations :
           LET r == plan_stage(intent, transcript, gen)
           IN /\ plan' = r.plan
              /\ log' = log \o r.log
    /\ pc' = DATA_RETRIEVER
    /\ UNCHANGED <<transcript, intent, evidence, answer, citations, safety_flags, error>>
    /\ UNCHANGED <<clientVars, reconcileVars, fetchVars>>

\* Retrieve with the category key deleted from the filters of the plan
\* itself, not from a copy of them
Retrieve_filters_in_place ==
    /\ pc = DATA_RETRIEVER
    /\ \E ragOutcome \in CatalogOutcomes, webOutcome \in WebOutcomes :
           LET r == retrieve(plan, transcript, ragOutcome, webOutcome)
           IN IF IsRaise(r)
              THEN /\ pc' = RAISED
                   /\ error' = r
                   /\ UNCHANGED <<evidence, log, plan>>
              ELSE /\ pc' = RESPONSE_GENERATOR
                   /\ evidence' = r.evidence
                   /\ log' = log \o r.log
                   /\ plan' = IF InList(RAG_SEARCH_TOOL, plan.dict.sources)
                              THEN Dict(Put(plan.dict, "filters",
                                            Dict(Del(plan.dict.filters.dict, "category"))))
                              ELSE plan
                   /\ UNCHANGED error
    /\ UNCHANGED <<transcript, intent, answer, citations, safety_flags>>
    /\ UNCHANGED <<clientVars, reconcileVars, fetchVars>>


Retrieve ==
    /\ pc = DATA_RETRIEVER
    /\ \E ragOutcome \in CatalogOutcomes, webOutcome \in WebOutcomes :
           LET r == retrieve(plan, transcript, ragOutcome, webOutcome)
           IN IF IsRaise(r)
              THEN /\ pc' = RAISED
                   /\ error' = r
                   /\ UNCHANGED <<evidence, log>>
              ELSE /\ pc' = RESPONSE_GENERATOR
                   /\ evidence' = r.evidence
                   /\ log' = log \o r.log
                   /\ UNCHANGED error
    /\ UNCHANGED <<transcript, intent, plan, answer, citations, safety_flags>>
    /\ UNCHANGED <<clientVars, reconcileVars, fetchVars>>

Answer ==
    /\ pc = RESPONSE_GENERATOR
    /\ \E gen \in AnswerGenerations :
           LET r == answer_stage(evidence, gen)
           IN IF IsRaise(r)
              THEN /\ pc' = RAISED
                   /\ error' = r
                   /\ UNCHANGED <<answer, citations, log>>
              ELSE /\ pc' = QUALITY_EVALUATOR
                   /\ answer' = r.answer
                   /\ citations' = r.citations
                   /\ log' = log \o r.log
                   /\ UNCHANGED error
    /\ UNCHANGED <<transcript, intent, plan, evidence, safety_flags>>
    /\ UNCHANGED <<clientVars, reconcileVars, fetchVars>>

\* Critique with the edge out of the validator leading back to the planner
Critique_to_planner ==
    /\ pc = QUALITY_EVALUATOR
    /\ LET r == critique(answer, citations, safety_flags, evidence)
       IN /\ answer' = r.answer
          /\ citations' = r.citations
          /\ log' = log \o r.log
    /\ pc' = QUERY_PLANNER
    /\ UNCHANGED <<transcript, intent, plan, evidence, safety_flags, error>>
    /\ UNCHANGED <<clientVars, reconcileVars, fetchVars>>

Critique ==
    /\ pc = QUALITY_EVALUATOR
    /\ LET r == critique(answer, citations, safety_flags, evidence)
       IN /\ answer' = r.answer
          /\ citations' = r.citations
          /\ log' = log \o r.log
    /\ pc' = END
    /\ UNCHANGED <<transcript, intent, plan, evidence, safety_flags, error>>
    /\ UNCHANGED <<clientVars, reconcileVars, fetchVars>>

Next == Route \/ Plan \/ Retrieve \/ Answer \/ Critique

Spec == Init /\ [][Next]_vars

(***************************************************************************)
(* The validator on its own: critique applied to any synthesized state,    *)
(* and applied again to the state it returned.                             *)
(***************************************************************************)
MaxCitations == 2
MaxValidatorRuns == 2

\* "drink"
S_DRINK ==
    <<"d", "r", "i", "n", "k">>

\* "eat"
S_EAT ==
    <<"e", "a", "t">>

\* "12.99"
S_NUM_1299 ==
    <<"1", "2", ".", "9", "9">>

\* evidence items as any source may return them: with or without an id,
\* with a number, a numeric string or a non-numeric string as price
ValCatalogLists ==
    { <<>>,
      <<[title |-> Str(S_PAN)]>>,
      <<[sku |-> Str(S_SKU1), title |-> Str(S_PAN), price |-> Str(S_NUM_1299)]>>,
      <<CatalogItem(S_D1, None, S_PAN, 12990),
        CatalogItem(S_D1, None, S_PAN, 12990),
        CatalogItem(S_D2, None, S_SOAP_TITLE, 0)>>,
      <<CatalogItem(S_D1, None, S_PAN, 5500),
        CatalogItem(S_D2, None, S_SOAP_TITLE, 0),
        CatalogItem(S_D3, None, S_MOP, 5500),
        CatalogItem(S_D4, None, S_CUP, 3000)>> }

ValWebLists ==
    { <<>>,
      <<[title |-> Str(S_PAN), price |-> Str(S_NA)]>>,
      <<WebItem(S_URL1, S_PAN, S_PRICE_1299),
        WebItem(S_URL2, S_SOAP_TITLE, S_NA),
        WebItem(S_URL3, S_MOP, S_NA)>>,
      <<WebItem(S_URL1, S_PAN, S_NA),
        WebItem(S_URL1, S_PAN, S_PRICE_1299)>> }

ValEvidence == { Dict([rag |-> List(r), web |-> List(w)]) : r \in ValCatalogLists, w \in ValWebLists }

ValCitationSet ==
    { [doc_id |-> Str(S_D1), source |-> Sym("private")],
      [doc_id |-> Str(S_D1)],
      [doc_id |-> None, source |-> Sym("private"), title |-> Str(S_PAN)],
      [url |-> Str(S_URL1), source |-> Sym("web")],
      [url |-> Str(S_URL2)] }

\* the lists of at most n citations
SeqsUpTo(S, n) == UNION { [1..k -> S] : k \in 0..n }

ValCitations == { List(c) : c \in SeqsUpTo(ValCitationSet, MaxCitations) }

ValAnswers == { Str(a) : a \in {V_EMPTY, V_PLAIN, V_PRICES, V_DOC, V_ACK} }

ValFlags == { None, List(<<>>), List(<<Str(S_DRINK)>>), List(<<Str(S_DRINK), Str(S_EAT)>>) }

ValInit ==
    /\ NoClientCall
    /\ NoReconcileCall
    /\ NoFetchCall
    /\ pc = QUALITY_EVALUATOR
    /\ transcript = Str(T_EMPTY)
    /\ intent = None
    /\ plan = None
    /\ evidence \in ValEvidence
    /\ answer \in ValAnswers
    /\ citations \in ValCitations
    /\ safety_flags \in ValFlags
    /\ log = <<>>
    /\ error = None

\* critique applied to the state a run of critique returned
Revalidate ==
    /\ pc = END
    /\ Len(log) < MaxValidatorRuns
    /\ LET r == critique(answer, citations, safety_flags, evidence)
       IN /\ answer' = r.answer
          /\ citations' = r.citations
          /\ log' = log \o r.log
    /\ UNCHANGED <<pc, transcript, intent, plan, evidence, safety_flags, error>>
    /\ UNCHANGED <<clientVars, reconcileVars, fetchVars>>

ValNext == Critique \/ Revalidate

ValSpec == ValInit /\ [][ValNext]_vars

(***************************************************************************)
(* Properties                                                              *)
(***************************************************************************)
Range(f) == { f[i] : i \in DOMAIN f }

\* the unsafe-use phrases that occur in the lower-cased text
MatchedPhrases(text) == { p \in Range(SAFETY_PATTERNS) : Contains(Lower(text), p) }

\* the refusal that names the flags, in the order given
RefusalNaming(flags) ==
    SAFETY_RESPONSE_HEAD \o Join(COMMA_SPACE, [i \in 1..Len(flags) |-> flags[i].str])
    \o SAFETY_RESPONSE_TAIL

\* no source returned any item
EvidenceEmpty ==
    /\ IsDict(evidence)
    /\ \A source \in DOMAIN evidence.dict : evidence.dict[source].list = <<>>

CatalogEvidence == GetOr(Or(evidence, Dict(EmptyDict)).dict, "rag", List(<<>>)).list
WebEvidence == GetOr(Or(evidence, Dict(EmptyDict)).dict, "web", List(<<>>)).list

\* C1: for every transcript whose lower-cased text contains a phrase of the
\* unsafe-use list, at the end of the pipeline safety_flags holds every
\* matched phrase and the answer is the refusal naming the flags, on the
\* generative path of the classifier as on the fallback path.
C1_UnsafeTranscriptRefused ==
    (pc = END /\ MatchedPhrases(transcript.str) # {}) =>
        /\ IsList(safety_flags)
        /\ \A p \in MatchedPhrases(transcript.str) : Str(p) \in Range(safety_flags.list)
        /\ answer = Str(RefusalNaming(safety_flags.list))

\* C2: whenever safety_flags is non-empty when the validator runs, the
\* citations of the final state are the empty list.
C2_FlaggedHasNoCitations ==
    (pc = END /\ Truthy(safety_flags)) => citations = List(<<>>)

\* C3: whatever the external calls return, the pipeline runs its five
\* stages without raising and ends with a non-empty answer string.
C3_AlwaysAnAnswer ==
    /\ pc # RAISED
    /\ pc = END => (IsStr(answer) /\ answer.str # <<>>)

\* C4 as stated: in every run in which no source returned any item, the
\* final answer is the fixed not-found message and the citations are empty.
C4_EmptyEvidenceNotFound ==
    (pc = END /\ EvidenceEmpty) =>
        (answer = Str(NO_RESULTS_ANSWER) /\ citations = List(<<>>))

\* C4, amended: in every run in which no source returned any item the
\* citations are empty, and the final answer is the fixed not-found message
\* when safety_flags is empty and the refusal naming the flags otherwise.
C4_EmptyEvidenceNotFoundUnflagged ==
    (pc = END /\ EvidenceEmpty) =>
        /\ citations = List(<<>>)
        /\ answer = IF Truthy(safety_flags)
                    THEN Str(RefusalNaming(safety_flags.list))
                    ELSE Str(NO_RESULTS_ANSWER)

C4_Witness ==
    /\ pc = END
    /\ EvidenceEmpty
    /\ ~Truthy(safety_flags)
    /\ DOMAIN evidence.dict = {"rag", "web"}
    /\ answer = Str(NO_RESULTS_ANSWER)

\* a validator run: critique appends its entry to the log
ValidatorRuns == pc \in {QUALITY_EVALUATOR, END} /\ log' # log

HasCitationFrom(cits, source) ==
    \E i \in 1..Len(cits) : Get(cits[i], "source") = Sym(source)

\* C5: after the validator ran on a state without safety flags, the
\* citations hold a private entry if catalog evidence is non-empty and a
\* web entry if web evidence is non-empty.
C5_EvidenceIsCited ==
    (pc = END /\ ~Truthy(safety_flags)) =>
        /\ CatalogEvidence # <<>> => HasCitationFrom(citations.list, "private")
        /\ WebEvidence # <<>> => HasCitationFrom(citations.list, "web")

\* C6: one validator run adds at most 3 catalog and at most 2 web
\* citations, adds none whose doc_id (or url) an earlier entry of the list
\* carries, and keeps the citations it found, in their order.
C6_RepairBounded ==
    [][ValidatorRuns =>
          LET old == Or(citations, List(<<>>)).list
              new == Or(citations', List(<<>>)).list
              added == (Len(old) + 1)..Len(new)
          IN /\ Len(new) >= Len(old)
             /\ SubSeq(new, 1, Len(old)) = old
             /\ Cardinality({i \in added : "doc_id" \in DOMAIN new[i]}) <= 3
             /\ Cardinality({i \in added : "url" \in DOMAIN new[i]}) <= 2
             /\ \A i \in added :
                    /\ DOMAIN new[i] \in {{"doc_id", "source"}, {"url", "source"}}
                    /\ "doc_id" \in DOMAIN new[i] =>
                           \A j \in 1..(i - 1) : Get(new[j], "doc_id") # new[i].doc_id
                    /\ "url" \in DOMAIN new[i] =>
                           \A j \in 1..(i - 1) : Get(new[j], "url") # new[i].url
      ]_vars

\* the repair met its cap: more catalog items than the cap carry an id,
\* and the run added exactly 3 private citations to a list that had one of
\* another kind
C6_Witness ==
    /\ pc = END
    /\ Len(log) = 1
    /\ ~Truthy(safety_flags)
    /\ Len(CatalogEvidence) > 3
    /\ \E i \in 1..Len(log[1].issues) : log[1].issues[i].issue = "missing_private_citations"
    /\ Cardinality({i \in 1..Len(citations.list) :
                       DOMAIN citations.list[i] = {"doc_id", "source"}}) = 3
    /\ \E i \in 1..Len(citations.list) : DOMAIN citations.list[i] # {"doc_id", "source"}

\* C7: a second validator run on the state the first run returned, with
\* evidence and flags unchanged, leaves answer and citations as they are.
C7_ValidatorIdempotent ==
    [][(pc = END /\ log' # log) => (answer' = answer /\ citations' = citations)]_vars

\* the second run came after a first one that changed both the citations
\* and the answer
C7_Witness ==
    /\ pc = END
    /\ Len(log) = 2
    /\ ~Truthy(safety_flags)
    /\ log[1].checks.citations = "fixed"
    /\ log[1].checks.citation_format = "fixed"
    /\ Contains(answer.str, SOURCES_HEAD)

\* the value of an evidence price: the number, or the number a string
\* writes (with or without "$"); a non-numeric string has none
PriceValues(items) ==
    { v \in { LET p == Get(items[i], "price")
              IN IF IsNum(p) THEN p
                 ELSE IF IsStr(p) THEN FloatOfStr(RemoveChar(p.str, "$"))
                 ELSE ValueError : i \in 1..Len(items) } : v # ValueError }

\* the tokens that the potentially_ungrounded_prices issue of a log entry
\* reports
ReportedPrices(entry) ==
    UNION { Range(entry.issues[i].prices) :
              i \in { j \in 1..Len(entry.issues) :
                        entry.issues[j].issue = "potentially_ungrounded_prices" } }

\* C8: for each $-prefixed numeric token of the answer: the token is not
\* reported if some evidence price is within 0.01 of it, and is reported in
\* the potentially_ungrounded_prices issue otherwise, whatever kind of value
\* the evidence prices are.
C8_PriceGrounding ==
    [][(ValidatorRuns /\ ~Truthy(safety_flags)) =>
          LET tokens == FindPrices(answer.str, 1)
              reported == ReportedPrices(log'[Len(log')])
              near(token) ==
                  \E v \in PriceValues(CatalogEvidence \o WebEvidence) :
                      Abs(FloatOfStr(RemoveChar(token, "$")).num - v.num) < 10
          IN \A i \in 1..Len(tokens) : near(tokens[i]) <=> tokens[i] \notin reported
      ]_vars

\* C9: at the end of every pipeline run each citation refers to an item
\* retrieved in this request: its doc_id is the doc_id or the sku of a
\* catalog evidence item, its url the url of a web evidence item.
C9_CitationsFromEvidence ==
    pc = END =>
        \A i \in 1..Len(citations.list) :
            LET c == citations.list[i]
            IN /\ DOMAIN c \cap {"doc_id", "url"} # {}
               /\ "doc_id" \in DOMAIN c =>
                      /\ IsStr(c.doc_id)
                      /\ \E k \in 1..Len(CatalogEvidence) :
                             c.doc_id \in {Get(CatalogEvidence[k], "doc_id"),
                                           Get(CatalogEvidence[k], "sku")}
               /\ "url" \in DOMAIN c =>
                      /\ IsStr(c.url)
                      /\ \E k \in 1..Len(WebEvidence) : c.url = Get(WebEvidence[k], "url")

\* a run whose citations came from the synthesizer (web items of its
\* fallback answer) and from the validator's repair (catalog items)
C9_Witness ==
    /\ pc = END
    /\ ~Truthy(safety_flags)
    /\ HasCitationFrom(citations.list, "private")
    /\ HasCitationFrom(citations.list, "web")
    /\ \E i \in 1..Len(log[Len(log)].issues) :
           log[Len(log)].issues[i].issue = "missing_private_citations"

Stages == <<INTENT_CLASSIFIER, QUERY_PLANNER, DATA_RETRIEVER, RESPONSE_GENERATOR, QUALITY_EVALUATOR>>

NodesOf(entries) == [i \in 1..Len(entries) |-> entries[i].node]

IsWarning(entry) == "warning" \in DOMAIN entry

\* C10 as stated: at the end of every run the log holds exactly one entry
\* per stage executed, in execution order, also after a fallback and for an
\* empty transcript.
C10_OneEntryPerStage ==
    pc = END => NodesOf(log) = Stages

\* C10, amended: at the end of every run the log holds exactly one result
\* entry per stage executed, in execution order, and each stage whose
\* generative call failed has one more entry, its llm_fallback warning,
\* directly before its result entry.
C10_OneResultEntryPerStage ==
    pc = END =>
        /\ NodesOf(SelectSeq(log, LAMBDA entry : ~IsWarning(entry))) = Stages
        /\ \A i \in 1..Len(log) :
               IsWarning(log[i]) =>
                   /\ log[i].warning = "llm_fallback"
                   /\ i < Len(log)
                   /\ ~IsWarning(log[i + 1])
                   /\ log[i + 1].node = log[i].node

\* all three generative stages fell back
C10_Witness ==
    /\ pc = END
    /\ Len(log) = 8
    /\ Cardinality({i \in 1..Len(log) : IsWarning(log[i])}) = 3

\* C11: in the intent, planning and synthesis stages a failure of the
\* generative call is caught inside the stage: run with a failing call from
\* any state in which the stage makes the call, the stage does not raise,
\* writes its rule-based fallback output, and appends a warning entry
\* carrying the error text followed by its result entry.
C11_GenerationFailureCaught ==
    /\ (pc = INTENT_CLASSIFIER /\ Strip(transcript.str) # <<>>) =>
           LET r == route(transcript, GenFailure)
           IN /\ r.intent = _fallback_intent_extraction(Strip(transcript.str))
              /\ r.safety_flags = _detect_safety_issues(Strip(transcript.str))
              /\ Len(r.log) = 2
              /\ IsWarning(r.log[1]) /\ r.log[1].error = GenFailure.error
              /\ ~IsWarning(r.log[2]) /\ r.log[2].intent = r.intent
    /\ pc = QUERY_PLANNER =>
           LET r == plan_stage(intent, transcript, GenFailure)
           IN /\ ~IsRaise(r)
              /\ r.plan = _generate_fallback_plan(transcript, intent.dict,
                                                  Or(Get(intent.dict, "constraints"),
                                                     Dict(EmptyDict)).dict)
              /\ Len(r.log) = 2
              /\ IsWarning(r.log[1]) /\ r.log[1].error = GenFailure.error
              /\ ~IsWarning(r.log[2]) /\ r.log[2].plan = r.plan
    /\ (pc = RESPONSE_GENERATOR /\ ~EvidenceEmpty) =>
           LET r == answer_stage(evidence, GenFailure)
           IN /\ ~IsRaise(r)
              /\ r.answer = _generate_fallback_response(CatalogEvidence, WebEvidence).answer
              /\ Len(r.log) = 2
              /\ IsWarning(r.log[1]) /\ r.log[1].error = GenFailure.error
              /\ ~IsWarning(r.log[2])

\* C12: whenever a tool call that the retrieval stage makes fails, the
\* evidence of that source is the empty list, the results of the other
\* source are kept as returned, and the failure is recorded in the log
\* entry of the stage: the entry is not the one the stage writes when the
\* tool answered with an empty result list.
C12_ToolFailureRecorded ==
    pc = DATA_RETRIEVER =>
        \A ragOutcome \in CatalogOutcomes, webOutcome \in WebOutcomes :
            LET data_sources ==
                    GetOr(Or(plan, Dict(EmptyDict)).dict, "sources", List(<<RAG_SEARCH_TOOL>>))
                useRag == InList(RAG_SEARCH_TOOL, data_sources)
                useWeb == InList(WEB_SEARCH_TOOL, data_sources)
                ragFailed == useRag /\ ~ragOutcome.ok
                webFailed == useWeb /\ ~webOutcome.ok
                r == retrieve(plan, transcript, ragOutcome, webOutcome)
            IN (~IsRaise(r) /\ (ragFailed \/ webFailed)) =>
                  /\ ragFailed => r.evidence.dict.rag = List(<<>>)
                  /\ webFailed => r.evidence.dict.web = List(<<>>)
                  /\ (useRag /\ ragOutcome.ok) =>
                         r.evidence.dict.rag = List(ragOutcome.results)
                  /\ (useWeb /\ webOutcome.ok) =>
                         r.evidence.dict.web = List(webOutcome.results)
                  /\ ragFailed =>
                         r.log # retrieve(plan, transcript, ToolResults(<<>>), webOutcome).log
                  /\ webFailed =>
                         r.log # retrieve(plan, transcript, ragOutcome, ToolResults(<<>>)).log

\* the stage appended the warning entry of its fallback path
FellBack(node) == \E i \in 1..Len(log) : IsWarning(log[i]) /\ log[i].node = node

\* intent.constraints.budget as the planner reads it
IntentBudget == Get(Or(Get(intent.dict, "constraints"), Dict(EmptyDict)).dict, "budget")

\* C13: when the planner took its fallback path: if the intent carries a
\* budget (any number, 0 included) the plan has filters.price = {$lte:
\* budget} and ranking price_asc, and if it carries none the plan has no
\* price filter and ranking relevance; for "Find eco-friendly dish soap
\* under $12" with both generations unavailable the plan has price.$lte =
\* 12.0, sources = [rag.search] and ranking price_asc.
C13_FallbackPlanBudget ==
    (pc \notin {INTENT_CLASSIFIER, QUERY_PLANNER} /\ FellBack("query_planner")) =>
        /\ IF IsNum(IntentBudget)
           THEN /\ Get(plan.dict.filters.dict, "price") =
                       Dict(Put(EmptyDict, "$lte", IntentBudget))
                /\ plan.dict.ranking = Sym("price_asc")
           ELSE /\ "price" \notin DOMAIN plan.dict.filters.dict
                /\ plan.dict.ranking = Sym("relevance")
        /\ (transcript = Str(T_SCENARIO) /\ FellBack("intent_classifier")) =>
               /\ Get(plan.dict.filters.dict, "price") =
                      Dict(Put(EmptyDict, "$lte", Num(12000)))
               /\ plan.dict.sources = List(<<RAG_SEARCH_TOOL>>)
               /\ plan.dict.ranking = Sym("price_asc")

\* C14: with generation unavailable, a transcript that contains a phrase of
\* LIVE_DATA_KEYWORDS gets a fallback intent with needs_live = true; and a
\* plan made on the planner's fallback path has sources [rag.search,
\* web.search] and comparison_strategy price_check if intent.needs_live is
\* true, sources [rag.search] and comparison_strategy none otherwise.
C14_LiveDataRouting ==
    /\ (pc # INTENT_CLASSIFIER /\ FellBack("intent_classifier")
        /\ \E i \in 1..Len(LIVE_DATA_KEYWORDS) :
               Contains(Lower(transcript.str), LIVE_DATA_KEYWORDS[i])) =>
           intent.dict.needs_live = Bool(TRUE)
    /\ (pc \notin {INTENT_CLASSIFIER, QUERY_PLANNER} /\ FellBack("query_planner")) =>
           IF Get(intent.dict, "needs_live") = Bool(TRUE)
           THEN /\ plan.dict.sources = List(<<RAG_SEARCH_TOOL, WEB_SEARCH_TOOL>>)
                /\ plan.dict.comparison_strategy = Sym("price_check")
           ELSE /\ plan.dict.sources = List(<<RAG_SEARCH_TOOL>>)
                /\ plan.dict.comparison_strategy = Sym("none")

\* both generations were unavailable for "price now": the fallback plan
\* asks for the web search
C14_Witness ==
    /\ pc = DATA_RETRIEVER
    /\ transcript = Str(T_LIVE)
    /\ FellBack("intent_classifier")
    /\ FellBack("query_planner")
    /\ plan.dict.sources = List(<<RAG_SEARCH_TOOL, WEB_SEARCH_TOOL>>)

\* the node that the graph runs after node p
Successor(p) ==
    LET i == CHOOSE k \in 1..Len(Stages) : Stages[k] = p
    IN IF i = Len(Stages) THEN END ELSE Stages[i + 1]

C18_SafetyGateOnly ==
    [][(ValidatorRuns /\ Truthy(safety_flags)) =>
          /\ answer' = Str(RefusalNaming(safety_flags.list))
          /\ citations' = citations
          /\ Len(log') = Len(log) + 1
          /\ LET entry == log'[Len(log')]
             IN /\ DOMAIN entry.checks = {"safety"}
                /\ entry.checks.safety = "fail"
                /\ "status" \in DOMAIN entry /\ entry.status = "fail"
      ]_vars

\* the issues list of a validator log entry, as names
IssueNames(entry) == { entry.issues[i].issue : i \in 1..Len(entry.issues) }

\* C19: a validator run on a state with no safety flags, no evidence in any
\* source and an answer that contains none of the acknowledgment phrases
\* returns the canned empty-result message as the answer, whatever the
\* citations, and logs the issue empty_evidence_not_acknowledged.
C19_EmptyEvidenceAnswerReplaced ==
    [][(/\ ValidatorRuns
        /\ ~Truthy(safety_flags)
        /\ CatalogEvidence = <<>> /\ WebEvidence = <<>>
        /\ \A i \in 1..Len(acknowledgment_phrases) :
               ~Contains(Lower(answer.str), acknowledgment_phrases[i])) =>
          /\ answer' = Str(EMPTY_EVIDENCE_ANSWER)
          /\ "empty_evidence_not_acknowledged" \in IssueNames(log'[Len(log')])
      ]_vars

\* C20: the status a validator run records for the citation check is pass
\* if a private citation existed on entry, fixed if the repair added a
\* private citation, and warn if catalog evidence exists but the repair
\* added none.
C20_CitationCheckStatus ==
    [][(ValidatorRuns /\ ~Truthy(safety_flags)) =>
          LET old == Or(citations, List(<<>>)).list
              new == citations'.list
              status == log'[Len(log')].checks.citations
              existed == HasCitationFrom(old, "private")
              added == \E i \in (Len(old) + 1)..Len(new) :
                           Get(new[i], "source") = Sym("private")
          IN /\ existed => status = "pass"
             /\ (~existed /\ added) => status = "fixed"
             /\ (~existed /\ ~added /\ CatalogEvidence # <<>>) => status = "warn"
      ]_vars

(***************************************************************************)
(* The shared generative client.  Every stage of a request calls           *)
(* get_llm_client, and the requests of one process run on the threads of   *)
(* the server; the interpreter may switch threads between any two          *)
(* bytecodes, so a call is the steps below: the test of line 282, the      *)
(* constructor call and the store of line 283, the load of line 284.  The  *)
(* constructor is taken to succeed (the provider is configured).           *)
(***************************************************************************)
MaxThreads == 3
MaxCallsPerThread == 2

Threads == 1..MaxThreads

\* a ModelInterface object, by the order of construction
ModelInterface(n) == [ModelInterface |-> n]

LINE_282 == "if _model_interface_instance is None"
LINE_283_CALL == "ModelInterface()"
LINE_283_STORE == "_model_interface_instance ="
LINE_284 == "return _model_interface_instance"
IDLE == "idle"

ClientInit ==
    /\ pc = END
    /\ transcript = None
    /\ intent = None
    /\ plan = None
    /\ evidence = None
    /\ answer = None
    /\ citations = None
    /\ safety_flags = None
    /\ log = <<>>
    /\ error = None
    /\ NoReconcileCall
    /\ NoFetchCall
    /\ _model_interface_instance = None
    /\ instances = 0
    /\ thread_pc = [t \in Threads |-> IDLE]
    /\ thread_instance = [t \in Threads |-> None]
    /\ thread_calls = [t \in Threads |-> 0]
    /\ received = {}

\* a thread enters get_llm_client and tests the global
TestInstance(t) ==
    /\ thread_pc[t] = IDLE
    /\ thread_calls[t] < MaxCallsPerThread
    /\ thread_calls' = [thread_calls EXCEPT ![t] = @ + 1]
    /\ thread_pc' = [thread_pc EXCEPT ![t] = IF _model_interface_instance = None
                                             THEN LINE_283_CALL ELSE LINE_284]
    /\ UNCHANGED <<_model_interface_instance, instances, thread_instance, received>>
    /\ UNCHANGED <<requestVars, reconcileVars, fetchVars>>

\* the constructor returns a new object to the thread
ConstructInstance(t) ==
    /\ thread_pc[t] = LINE_283_CALL
    /\ instances' = instances + 1
    /\ thread_instance' = [thread_instance EXCEPT ![t] = ModelInterface(instances + 1)]
    /\ thread_pc' = [thread_pc EXCEPT ![t] = LINE_283_STORE]
    /\ UNCHANGED <<_model_interface_instance, thread_calls, received>>
    /\ UNCHANGED <<requestVars, reconcileVars, fetchVars>>

\* the thread stores its object in the global
StoreInstance(t) ==
    /\ thread_pc[t] = LINE_283_STORE
    /\ _model_interface_instance' = thread_instance[t]
    /\ thread_pc' = [thread_pc EXCEPT ![t] = LINE_284]
    /\ UNCHANGED <<instances, thread_instance, thread_calls, received>>
    /\ UNCHANGED <<requestVars, reconcileVars, fetchVars>>

\* the thread loads the global and returns it to the request
ReturnInstance(t) ==
    /\ thread_pc[t] = LINE_284
    /\ thread_instance' = [thread_instance EXCEPT ![t] = _model_interface_instance]
    /\ received' = received \cup {_model_interface_instance}
    /\ thread_pc' = [thread_pc EXCEPT ![t] = IDLE]
    /\ UNCHANGED <<_model_interface_instance, instances, thread_calls>>
    /\ UNCHANGED <<requestVars, reconcileVars, fetchVars>>

get_llm_client(t) ==
    \/ TestInstance(t)
    \/ ConstructInstance(t)
    \/ StoreInstance(t)
    \/ ReturnInstance(t)

ClientNext == \E t \in Threads : get_llm_client(t)

ClientSpec == ClientInit /\ [][ClientNext]_vars

\* C17: whatever the interleaving of the threads that call get_llm_client,
\* at most one generative client is ever constructed, and every call
\* returns that one client.
C17_SingleClient ==
    /\ instances <= 1
    /\ received \subseteq {ModelInterface(1)}

Max(a, b) == IF a > b THEN a ELSE b

(***************************************************************************)
(* Python float arithmetic.  A float is an IEEE-754 double: the value      *)
(* m * 2^e with m a natural number of exactly 53 binary digits, or zero.   *)
(* A natural number too wide for one machine word is a tuple of LIMBS      *)
(* digits in base LIMB, least significant first.  Every operation is the   *)
(* exact result rounded to the nearest double, ties to the even mantissa;  *)
(* the magnitudes met here stay far inside the normal range.               *)
(***************************************************************************)
MANTISSA_BITS == 53
LIMB_BITS == 15
LIMB == 2^LIMB_BITS
LIMBS == 8

Limbs(F(_)) == <<F(1), F(2), F(3), F(4), F(5), F(6), F(7), F(8)>>

Limb(a, i) == IF i \in 1..LIMBS THEN a[i] ELSE 0

BigZero == Limbs(LAMBDA i : 0)

\* the natural number n of one machine word
BigOfNat(n) ==
    Limbs(LAMBDA i : CASE i = 1 -> n % LIMB
                       [] i = 2 -> (n \div LIMB) % LIMB
                       [] i = 3 -> n \div (LIMB * LIMB)
                       [] OTHER -> 0)

\* a natural number that fits one machine word
NatOfBig(a) == a[1] + LIMB * a[2] + LIMB * LIMB * a[3]

BigBit(a, k) == (Limb(a, (k \div LIMB_BITS) + 1) \div 2^(k % LIMB_BITS)) % 2

\* the number of binary digits of a
BigLen(a) ==
    IF a = BigZero THEN 0
    ELSE LET top == CHOOSE i \in 1..LIMBS : a[i] # 0 /\ \A j \in (i + 1)..LIMBS : a[j] = 0
         IN LIMB_BITS * (top - 1)
            + (CHOOSE n \in 1..LIMB_BITS : 2^(n - 1) <= a[top] /\ a[top] < 2^n)

\* a >= b
BigGE(a, b) ==
    \A i \in 1..LIMBS : a[i] >= b[i] \/ \E j \in (i + 1)..LIMBS : a[j] > b[j] /\ \A k \in (j + 1)..LIMBS : a[k] = b[k]

\* a - b, for a >= b
BigSub(a, b) ==
    LET borrow(i) == IF \E j \in 1..(i - 1) :
                            a[j] < b[j] /\ \A k \in (j + 1)..(i - 1) : a[k] <= b[k]
                     THEN 1 ELSE 0
    IN Limbs(LAMBDA i : (a[i] - b[i] - borrow(i) + LIMB) % LIMB)

BigAdd(a, b) ==
    LET carry(i) == IF \E j \in 1..(i - 1) :
                           a[j] + b[j] >= LIMB /\ \A k \in (j + 1)..(i - 1) : a[k] + b[k] >= LIMB - 1
                    THEN 1 ELSE 0
    IN Limbs(LAMBDA i : (a[i] + b[i] + carry(i)) % LIMB)

\* a * 2^n
BigShl(a, n) ==
    LET w == n \div LIMB_BITS
        r == n % LIMB_BITS
    IN Limbs(LAMBDA i : ((Limb(a, i - w) * 2^r) % LIMB) + (Limb(a, i - w - 1) \div 2^(LIMB_BITS - r)))

\* a \div 2^n
BigShr(a, n) ==
    LET w == n \div LIMB_BITS
        r == n % LIMB_BITS
    IN Limbs(LAMBDA i : (Limb(a, i + w) \div 2^r) + ((Limb(a, i + w + 1) % 2^r) * 2^(LIMB_BITS - r)))

\* a * k, for a natural number k < LIMB
BigMul(a, k) ==
    BigAdd(Limbs(LAMBDA i : (a[i] * k) % LIMB),
           Limbs(LAMBDA i : (Limb(a, i - 1) * k) \div LIMB))

\* quotient and remainder of p by q > 0, q a whole number n of limbs with
\* the top binary digit of its top limb set: long division, one limb of p
\* at a time from limb i down.  The quotient digit is at most the estimate
\* made from the two top limbs of the running remainder and the top limb
\* of q, and at least that estimate less two.
RECURSIVE DivLimbs(_, _, _, _, _)
DivLimbs(p, q, n, i, st) ==
    IF i < 1 THEN st
    ELSE LET Digit(r, estimate) ==
                 CHOOSE d \in Max(0, estimate - 2)..estimate :
                     BigGE(r, BigMul(q, d)) /\ ~BigGE(r, BigMul(q, d + 1))
             Continue(r, quo, d) ==
                 DivLimbs(p, q, n, i - 1, [rem |-> BigSub(r, BigMul(q, d)),
                                           quo |-> BigAdd(quo, BigOfNat(d))])
             Step(r, quo) ==
                 IF ~BigGE(r, q) THEN DivLimbs(p, q, n, i - 1, [rem |-> r, quo |-> quo])
                 ELSE Continue(r, quo, Digit(r, Min(LIMB - 1, (Limb(r, n + 1) * LIMB + Limb(r, n)) \div q[n])))
         IN Step(BigAdd(BigShl(st.rem, LIMB_BITS), BigOfNat(p[i])), BigShl(st.quo, LIMB_BITS))

\* the limbs of a number of n binary digits
LimbsOf(n) == (n + LIMB_BITS - 1) \div LIMB_BITS

\* quotient of p by q > 0 and whether the division is inexact: p * 2^t is
\* divided by q * 2^t, for the least t that makes q * 2^t a whole number
\* of limbs
BigDiv(p, q) ==
    LET Result(st) == [quo |-> st.quo, inexact |-> st.rem # BigZero]
        Divide(pp, qq) ==
            Result(DivLimbs(pp, qq, LimbsOf(BigLen(qq)), LimbsOf(BigLen(pp)),
                            [rem |-> BigZero, quo |-> BigZero]))
        Normalised(t) == Divide(BigShl(p, t), BigShl(q, t))
    IN Normalised((LIMB_BITS - (BigLen(q) % LIMB_BITS)) % LIMB_BITS)

Double(m, e) == [m |-> m, e |-> e]
DoubleZero == Double(BigZero, 0)

\* the double nearest to x * 2^e, where x > 0 is the natural number n if
\* exact and lies strictly between n and n + 1 otherwise, n of more than
\* MANTISSA_BITS binary digits
RoundBig(n, exact, e) ==
    LET Carry(m, drop) == IF BigLen(m) > MANTISSA_BITS
                          THEN Double(BigShr(m, 1), e + drop + 1)
                          ELSE Double(m, e + drop)
        Up(m, drop) == /\ BigBit(n, drop - 1) = 1
                       /\ \/ ~exact
                          \/ BigBit(m, 0) = 1
                          \/ \E i \in 0..(drop - 2) : BigBit(n, i) = 1
        Mantissa(m, drop) == IF Up(m, drop) THEN Carry(BigAdd(m, BigOfNat(1)), drop)
                             ELSE Double(m, e + drop)
        Dropping(drop) == Mantissa(BigShr(n, drop), drop)
    IN Dropping(BigLen(n) - MANTISSA_BITS)

\* the double nearest to n * 2^e, for a natural number n > 0
RoundNat(n, e) ==
    LET Widened(s) == RoundBig(BigShl(n, s), TRUE, e - s)
    IN Widened(Max(0, MANTISSA_BITS + 2 - BigLen(n)))

\* the double nearest to (p / q) * 2^e, for natural numbers p > 0, q > 0
RoundRatio(p, q, e) ==
    LET Quotient(d, s) == RoundBig(d.quo, ~d.inexact, e - s)
        Scaled(s) == Quotient(BigDiv(BigShl(p, s), q), s)
    IN Scaled(Max(0, MANTISSA_BITS + 2 + BigLen(q) - BigLen(p)))

ZeroDivisionError == [exception |-> "ZeroDivisionError"]

\* the float written as the decimal n / 1000
FloatOfThousandths(n) ==
    IF n = 0 THEN DoubleZero
    ELSE RoundRatio(BigOfNat(n), BigOfNat(1000), 0)

\* abs(a - b)
FloatAbsDiff(a, b) ==
    LET Diff(x, y, e) == IF x = y THEN DoubleZero
                         ELSE IF BigGE(x, y) THEN RoundNat(BigSub(x, y), e)
                         ELSE RoundNat(BigSub(y, x), e)
        Aligned(e) == Diff(BigShl(a.m, a.e - e), BigShl(b.m, b.e - e), e)
    IN IF a.m = BigZero THEN b
       ELSE IF b.m = BigZero THEN a
       ELSE Aligned(Min(a.e, b.e))

\* a / b
FloatDiv(a, b) ==
    IF b.m = BigZero THEN ZeroDivisionError
    ELSE IF a.m = BigZero THEN DoubleZero
    ELSE RoundRatio(a.m, b.m, a.e - b.e)

\* a * k, for a natural number k < LIMB
FloatMulNat(a, k) ==
    IF a.m = BigZero \/ k = 0 THEN DoubleZero
    ELSE RoundNat(BigMul(a.m, k), a.e)

\* a > k, for a natural number k
FloatGreaterNat(a, k) ==
    IF a.m = BigZero THEN FALSE
    ELSE IF a.e >= 0 THEN ~BigGE(BigOfNat(k), BigShl(a.m, a.e))
    ELSE ~BigGE(BigShl(BigOfNat(k), 0 - a.e), a.m)

\* f"{a:.1f}": a in tenths, the exact value rounded half to even
FormatOneDecimal(a) ==
    LET Text(t) == NatStr(t \div 10) \o <<".">> \o NatStr(t % 10)
        Nearest(n, twice, one) ==
            IF twice = one THEN n + (n % 2)
            ELSE IF BigGE(twice, one) THEN n + 1
            ELSE n
        Halves(p, whole, k) ==
            Nearest(NatOfBig(whole), BigShl(BigSub(p, BigShl(whole, k)), 1), BigShl(BigOfNat(1), k))
        Tenths(p, k) == Halves(p, BigShr(p, k), k)
    IN IF a.m = BigZero THEN Text(0)
       ELSE IF a.e >= 0 THEN Text(NatOfBig(BigShl(BigMul(a.m, 10), a.e)))
       ELSE Text(Tenths(BigMul(a.m, 10), 0 - a.e))

(***************************************************************************)
(* The reconciliation utility.  fuzz.token_set_ratio belongs to a library  *)
(* outside the repository: the similarity of each pair of titles is an     *)
(* input, a number from 0 to 100.  Prices are not negative.                *)
(***************************************************************************)
FUZZY_MATCH_THRESHOLD == 80
PRICE_VARIANCE_THRESHOLD == 10

TypeError == [exception |-> "TypeError"]

\* "price_diff_"
PRICE_DIFF ==
    <<"p", "r", "i", "c", "e", "_", "d", "i", "f", "f", "_">>

\* float(v)
Float(v) ==
    LET Parsed(r) == IF r = ValueError THEN ValueError ELSE FloatOfThousandths(r.num)
    IN CASE IsNum(v) -> FloatOfThousandths(v.num)
         [] IsStr(v) -> Parsed(FloatOfStr(v.str))
         [] OTHER -> TypeError

\* the inner loop of reconcile from web item j on: best_match (None while
\* no title has a similarity above 0) and highest_score
RECURSIVE BestMatch(_, _, _, _)
BestMatch(similarity, webs, j, best) ==
    IF j > Len(webs) THEN best
    ELSE IF similarity[j] > best.highest_score
    THEN BestMatch(similarity, webs, j + 1, [best_match |-> webs[j], highest_score |-> similarity[j]])
    ELSE BestMatch(similarity, webs, j + 1, best)

\* price_conflict of a catalog item and its best match: a label, None, or
\* the ZeroDivisionError that the except clause does not catch
PriceConflict(rag_item, best_match) ==
    LET Label(variance_percent) ==
            IF FloatGreaterNat(variance_percent, PRICE_VARIANCE_THRESHOLD)
            THEN Str(PRICE_DIFF \o FormatOneDecimal(variance_percent) \o <<"%">>)
            ELSE None
        Compared(rag_price_value, web_price_value) ==
            IF IsRaise(rag_price_value) \/ IsRaise(web_price_value) THEN None
            ELSE IF rag_price_value.m = BigZero THEN ZeroDivisionError
            ELSE Label(FloatMulNat(FloatDiv(FloatAbsDiff(rag_price_value, web_price_value),
                                            rag_price_value), 100))
    IN IF /\ best_match # None
          /\ DOMAIN best_match # {}
          /\ Truthy(Get(rag_item, "price"))
          /\ Truthy(Get(best_match, "price"))
       THEN Compared(Float(rag_item.price), Float(best_match.price))
       ELSE None

\* the loop of reconcile over the catalog items from item i on
RECURSIVE ReconcileCatalog(_, _, _, _, _)
ReconcileCatalog(rags, webs, similarity, i, acc) ==
    IF i > Len(rags) THEN acc
    ELSE LET matched(best) == best.best_match # None /\ best.highest_score > FUZZY_MATCH_THRESHOLD
             Entry(best, price_conflict) ==
                 IF IsRaise(price_conflict) THEN price_conflict
                 ELSE ReconcileCatalog(rags, webs, similarity, i + 1,
                          [reconciled_results |->
                               Append(acc.reconciled_results,
                                      [primary |-> rags[i],
                                       web_match |-> IF best.highest_score > FUZZY_MATCH_THRESHOLD
                                                     THEN best.best_match ELSE None,
                                       score |-> best.highest_score,
                                       conflict |-> price_conflict,
                                       source_type |-> Sym("rag")]),
                           used_web_urls |->
                               IF matched(best)
                               THEN acc.used_web_urls \cup {Get(best.best_match, "url")}
                               ELSE acc.used_web_urls])
             Matched(best) == Entry(best, PriceConflict(rags[i], best.best_match))
         IN Matched(BestMatch(similarity[i], webs, 1, [best_match |-> None, highest_score |-> 0]))

\* the entries of the web items that no catalog item consumed
WebOnly(webs, used_web_urls) ==
    LET unused == SelectSeq(webs, LAMBDA web_item : Get(web_item, "url") \notin used_web_urls)
    IN [k \in 1..Len(unused) |->
            [primary |-> unused[k], web_match |-> None, score |-> 0,
             conflict |-> None, source_type |-> Sym("web_only")]]

\* reconcile(rag_items, web_items): the list returned, or the exception
\* raised
reconcile(rags, webs, similarity) ==
    LET Finished(acc, web_list) ==
            IF IsRaise(acc) THEN acc
            ELSE List(acc.reconciled_results \o WebOnly(web_list, acc.used_web_urls))
        Looped(web_list) ==
            Finished(ReconcileCatalog(rags.list, web_list, similarity, 1,
                                      [reconciled_results |-> <<>>, used_web_urls |-> {}]),
                     web_list)
    IN IF ~IsList(rags) THEN TypeError
       ELSE Looped(Or(webs, List(<<>>)).list)

\* the arguments of a call
PricedCatalogItem(doc_id, price) ==
    [doc_id |-> Str(doc_id), title |-> Str(S_PAN), price |-> price]

PricedWebItem(url, price) ==
    [url |-> Str(url), title |-> Str(S_PAN), price |-> price]

\* catalog prices: 10.00, 1.00, 0 and none
ReconcileCatalogLists ==
    { <<>>,
      <<PricedCatalogItem(S_D1, Num(10000))>>,
      <<PricedCatalogItem(S_D1, Num(1000))>>,
      <<PricedCatalogItem(S_D1, Num(0))>>,
      <<PricedCatalogItem(S_D1, None)>>,
      <<PricedCatalogItem(S_D1, Num(10000)), PricedCatalogItem(S_D2, Num(1000))>>,
      <<PricedCatalogItem(S_D1, Num(10000)), PricedCatalogItem(S_D2, Num(10000))>> }

\* web prices: 12.00, 10.05, 11.00, 1.10, 0 and "N/A"
ReconcileWebLists ==
    { <<>>,
      <<PricedWebItem(S_URL1, Num(12000))>>,
      <<PricedWebItem(S_URL1, Num(10050))>>,
      <<PricedWebItem(S_URL1, Num(11000))>>,
      <<PricedWebItem(S_URL1, Num(1100))>>,
      <<PricedWebItem(S_URL1, Num(0))>>,
      <<PricedWebItem(S_URL1, Str(S_NA))>>,
      <<PricedWebItem(S_URL1, Num(12000)), PricedWebItem(S_URL2, Num(1100))>>,
      <<PricedWebItem(S_URL1, Num(11000)), PricedWebItem(S_URL2, Num(10050))>>,
      <<PricedWebItem(S_URL1, Num(12000)), PricedWebItem(S_URL1, Num(10050))>> }

\* similarities: none, at the match threshold, above it
Similarities == {0, 80, 90}

NoRequest ==
    /\ pc = END
    /\ transcript = None
    /\ intent = None
    /\ plan = None
    /\ evidence = None
    /\ answer = None
    /\ citations = None
    /\ safety_flags = None
    /\ log = <<>>
    /\ error = None

ReconcileInit ==
    /\ NoRequest
    /\ NoClientCall
    /\ NoFetchCall
    /\ rag_items \in {None} \cup { List(l) : l \in ReconcileCatalogLists }
    /\ web_items \in {None} \cup { List(l) : l \in ReconcileWebLists }
    /\ token_set_ratio \in
           [1..(IF IsList(rag_items) THEN Len(rag_items.list) ELSE 0) ->
                [1..(IF IsList(web_items) THEN Len(web_items.list) ELSE 0) -> Similarities]]
    /\ reconciled_results = None

Reconcile ==
    /\ reconciled_results = None
    /\ reconciled_results' = reconcile(rag_items, web_items, token_set_ratio)
    /\ UNCHANGED <<rag_items, web_items, token_set_ratio>>
    /\ UNCHANGED <<requestVars, clientVars, fetchVars>>

ReconcileNext == Reconcile

ReconcileSpec == ReconcileInit /\ [][ReconcileNext]_vars

\* the entries of a finished call
ReconciledEntries ==
    IF reconciled_results = None \/ IsRaise(reconciled_results) THEN <<>>
    ELSE reconciled_results.list

\* C15: for a catalog item and its matched web item that both carry a
\* numeric price, reconcile flags a price conflict exactly when
\* |catalogPrice - webPrice| / catalogPrice * 100 is strictly greater than
\* 10: 10.00 against 12.00 is a conflict, 10.00 against 10.05 is none, and
\* a variance of exactly 10% is none.
C15_PriceConflictThreshold ==
    \A k \in 1..Len(ReconciledEntries) :
        LET entry == ReconciledEntries[k]
            catalogPrice == Get(entry.primary, "price")
            webPrice == Get(entry.web_match, "price")
        IN (/\ entry.source_type = Sym("rag")
            /\ entry.web_match # None
            /\ IsNum(catalogPrice) /\ IsNum(webPrice)
            /\ catalogPrice.num > 0) =>
               (entry.conflict # None <=>
                    Abs(catalogPrice.num - webPrice.num) * 100 > 10 * catalogPrice.num)

\* the statuses the checks of a validator log entry record
CheckStatuses(entry) == { entry.checks[c] : c \in DOMAIN entry.checks }

\* C21: for every validator run that does not short-circuit on safety, the
\* overall status of the log entry is fail if any check failed, else warn
\* if any check warned, else pass (a check recorded as fixed counts as
\* neither); a run on unacknowledged empty evidence, the run that
\* overwrites the answer, records a failed check and so the status fail.
C21_OverallStatus ==
    [][(ValidatorRuns /\ ~Truthy(safety_flags)) =>
          LET entry == log'[Len(log')]
              unacknowledged ==
                  /\ CatalogEvidence = <<>> /\ WebEvidence = <<>>
                  /\ \A i \in 1..Len(acknowledgment_phrases) :
                         ~Contains(Lower(answer.str), acknowledgment_phrases[i])
          IN /\ entry.status = IF "fail" \in CheckStatuses(entry) THEN "fail"
                               ELSE IF "warn" \in CheckStatuses(entry) THEN "warn"
                               ELSE "pass"
             /\ unacknowledged => /\ "fail" \in CheckStatuses(entry)
                                  /\ entry.status = "fail"
      ]_vars

\* a citation of the one structure: a source that is private or web, the
\* identifier of that source, and a title
WellFormedCitation(c) ==
    /\ "source" \in DOMAIN c
    /\ c.source \in {Sym("private"), Sym("web")}
    /\ c.source = Sym("private") => ("doc_id" \in DOMAIN c /\ IsStr(c.doc_id))
    /\ c.source = Sym("web") => ("url" \in DOMAIN c /\ IsStr(c.url))
    /\ "title" \in DOMAIN c /\ IsStr(c.title)

\* C22: every citation of the final state, produced by the generative path
\* of the synthesizer, by its fallback or by the repair of the validator,
\* has a source that is private or web, the identifier matching the source
\* (doc_id for private, url for web) and a title.
C22_CitationStructure ==
    (pc = END /\ IsList(citations)) =>
        \A i \in 1..Len(citations.list) : WellFormedCitation(citations.list[i])

\* C23: for an empty or whitespace-only transcript the classifier makes no
\* generative call: whatever a call would have returned, it sets intent to
\* {task: out_of_scope, constraints: {}, needs_live: false} and
\* safety_flags to [] and appends the one log entry with error
\* empty_transcript; the remaining four stages still run, none raises, and
\* the run ends with an answer.
C23_EmptyTranscriptProceeds ==
    Strip(transcript.str) = <<>> =>
        /\ pc # INTENT_CLASSIFIER =>
              /\ intent = Dict([task |-> Sym("out_of_scope"),
                                constraints |-> Dict(EmptyDict),
                                needs_live |-> Bool(FALSE)])
              /\ safety_flags = List(<<>>)
              /\ log[1] = [node |-> "intent_classifier", error |-> "empty_transcript"]
              /\ \A i \in 2..Len(log) : log[i].node # INTENT_CLASSIFIER
        /\ pc # RAISED
        /\ pc = END => /\ Range(NodesOf(log)) = Range(Stages)
                       /\ IsStr(answer) /\ answer.str # <<>>

\* the least position from i on at which sub occurs in s, 0 if there is none
FindFrom(s, sub, i) ==
    LET at == { k \in i..(Len(s) - Len(sub) + 1) : SubSeq(s, k, k + Len(sub) - 1) = sub }
    IN IF at = {} THEN 0 ELSE CHOOSE k \in at : \A j \in at : k <= j

\* the text s names the items from the k-th on, each as "<number>. <title>"
\* with the title cut to FALLBACK_TITLE_LENGTH characters, one after the
\* other from position i on
RECURSIVE ListedInOrder(_, _, _, _)
ListedInOrder(s, items, k, i) ==
    IF k > Len(items) THEN TRUE
    ELSE IF ~IsStr(Get(items[k], "title")) THEN FALSE
    ELSE LET line == NatStr(k) \o <<".", " ">>
                     \o Truncate(Get(items[k], "title").str, FALLBACK_TITLE_LENGTH)
             at == FindFrom(s, line, i)
         IN at > 0 /\ ListedInOrder(s, items, k + 1, at + Len(line))

\* the citation c is the citation of the evidence item
CitationOf(c, item) ==
    IF "url" \in DOMAIN item
    THEN Get(c, "source") = Sym("web") /\ Get(c, "url") = item.url
    ELSE Get(c, "source") = Sym("private") /\ Get(c, "doc_id") = item.doc_id

\* the synthesis step fell back: it appended its warning entry
SynthesisFellBack ==
    /\ pc = RESPONSE_GENERATOR /\ pc' = QUALITY_EVALUATOR
    /\ \E i \in (Len(log) + 1)..Len(log') : IsWarning(log'[i])

IsBestMatch(i, j) ==
    /\ token_set_ratio[i][j] > 0
    /\ \A k \in 1..(j - 1) : token_set_ratio[i][k] < token_set_ratio[i][j]
    /\ \A k \in (j + 1)..Len(web_items.list) : token_set_ratio[i][k] <= token_set_ratio[i][j]

\* the web items, by position, that are the best match of a catalog item
\* with a score above 80
ConsumedWebItems ==
    { j \in 1..Len(Or(web_items, List(<<>>)).list) :
          \E i \in 1..Len(rag_items.list) :
              IsBestMatch(i, j) /\ token_set_ratio[i][j] > 80 }

\* C25: reconcile outputs one entry per catalog item in input order,
\* followed by one web_only entry, in input order, for every web item that
\* is not the best match above the threshold of any catalog item: every
\* web item is in the output as a matched item or as a web_only entry,
\* also when several web items share a url.
C25_EveryWebItemInOutput ==
    (reconciled_results # None /\ IsList(reconciled_results)) =>
        LET rags == rag_items.list
            webs == Or(web_items, List(<<>>)).list
            entries == reconciled_results.list
            unconsumed == SelectSeq([j \in 1..Len(webs) |-> j],
                                    LAMBDA j : j \notin ConsumedWebItems)
        IN /\ Len(entries) = Len(rags) + Len(unconsumed)
           /\ \A i \in 1..Len(rags) :
                  /\ entries[i].source_type = Sym("rag")
                  /\ entries[i].primary = rags[i]
           /\ \A k \in 1..Len(unconsumed) :
                  /\ entries[Len(rags) + k].source_type = Sym("web_only")
                  /\ entries[Len(rags) + k].primary = webs[unconsumed[k]]
           /\ \A j \in 1..Len(webs) :
                  \E k \in 1..Len(entries) :
                      \/ entries[k].web_match = webs[j]
                      \/ (entries[k].source_type = Sym("web_only") /\ entries[k].primary = webs[j])

\* the payload of the call of the tool in the entry the retriever logged,
\* None if it made no such call
PayloadOf(entry, tool) ==
    LET calls == { i \in 1..Len(entry.tool_calls) : entry.tool_calls[i].tool = tool.sym }
    IN IF calls = {} THEN None ELSE entry.tool_calls[CHOOSE i \in calls : TRUE].payload

\* C26: the catalog request carries query = plan.query_text (the transcript
\* when the plan has none), top_k = plan.top_k and the filters of the plan
\* without the category key, every other key kept; the web request carries
\* the same query and top_k = min(plan.top_k, 5), never more than 5;
\* building the payloads leaves the plan, its category filter included,
\* unchanged.
C26_RequestPayloads ==
    [][(pc = DATA_RETRIEVER /\ pc' = RESPONSE_GENERATOR) =>
          LET entry == log'[Len(log')]
              catalog == PayloadOf(entry, RAG_SEARCH_TOOL)
              web == PayloadOf(entry, WEB_SEARCH_TOOL)
              query == Or(Get(plan.dict, "query_text"), transcript)
              filters == plan.dict.filters.dict
          IN /\ catalog # None =>
                    /\ catalog.query = query
                    /\ catalog.top_k = plan.dict.top_k
                    /\ DOMAIN catalog.filters.dict = DOMAIN filters \ {"category"}
                    /\ \A k \in DOMAIN catalog.filters.dict : catalog.filters.dict[k] = filters[k]
             /\ web # None =>
                    /\ web.query = query
                    /\ web.top_k = PyInt(Min(plan.dict.top_k.int, 5))
                    /\ web.top_k.int <= 5
             /\ plan' = plan
      ]_vars

(***************************************************************************)
(* The tool calls of retrieve, one by one.  retrieve issues the catalog    *)
(* call and then the web call; here the calls that the plan names are      *)
(* issued and answered in any order, also interleaved, each writing its    *)
(* results into collected_evidence under the key of its source.            *)
(***************************************************************************)
FetchTools == {RAG_SEARCH_TOOL, WEB_SEARCH_TOOL}

READY == "ready"
SENT == "sent"
DONE == "done"
SKIPPED == "skipped"

\* both calls writing their results under the one key "rag"
EvidenceKey_shared(tool) == "rag"

\* collected_evidence["rag"] = rag_results, collected_evidence["web"] = web_results
EvidenceKey(tool) == IF tool = RAG_SEARCH_TOOL THEN "rag" ELSE "web"

\* what a tool may answer
ToolOutcomes(tool) == IF tool = RAG_SEARCH_TOOL THEN CatalogOutcomes ELSE WebOutcomes

\* _execute_rag_search or _execute_web_search on the plan of the state
ExecuteSearch(tool, outcome) ==
    IF tool = RAG_SEARCH_TOOL
    THEN _execute_rag_search(Or(plan, Dict(EmptyDict)).dict, transcript, outcome)
    ELSE _execute_web_search(Or(plan, Dict(EmptyDict)).dict, transcript, outcome)

\* plans that name no source, and the two sources in the other order
FetchPlanGenerations ==
    PlanGenerations \cup
    { GenValue([sources |-> List(<<>>)]),
      GenValue([sources |-> List(<<WEB_SEARCH_TOOL, RAG_SEARCH_TOOL>>)]) }

\* the state in which the graph enters retrieve
FetchInit ==
    /\ NoClientCall
    /\ NoReconcileCall
    /\ pc = DATA_RETRIEVER
    /\ transcript \in {Str(T_LIVE), Str(T_BUDGET)}
    /\ intent = route(transcript, GenFailure).intent
    /\ safety_flags = route(transcript, GenFailure).safety_flags
    /\ \E gen \in FetchPlanGenerations :
           /\ plan = plan_stage(intent, transcript, gen).plan
           /\ log = route(transcript, GenFailure).log \o plan_stage(intent, transcript, gen).log
    /\ evidence = None
    /\ answer = None
    /\ citations = None
    /\ error = None
    /\ tool_pc = [tool \in FetchTools |->
                     IF InList(tool, GetOr(plan.dict, "sources", List(<<RAG_SEARCH_TOOL>>)))
                     THEN READY ELSE SKIPPED]
    /\ tool_outcome = [tool \in FetchTools |-> None]
    /\ tool_evidence = EmptyDict
    /\ tool_log = <<>>

\* the payload of a call is built and the request sent, or building it
\* raises and the exception leaves retrieve
SendRequest(tool) ==
    /\ pc = DATA_RETRIEVER
    /\ tool_pc[tool] = READY
    /\ LET r == ExecuteSearch(tool, ToolFailure)
       IN IF IsRaise(r)
          THEN /\ pc' = RAISED
               /\ error' = r
               /\ UNCHANGED tool_pc
          ELSE /\ tool_pc' = [tool_pc EXCEPT ![tool] = SENT]
               /\ UNCHANGED <<pc, error>>
    /\ UNCHANGED <<tool_outcome, tool_evidence, tool_log>>
    /\ UNCHANGED <<transcript, intent, plan, evidence, answer, citations, safety_flags, log>>
    /\ UNCHANGED <<clientVars, reconcileVars>>

\* the tool answers, or the call fails, and the results are written
ReceiveResults(tool) ==
    /\ pc = DATA_RETRIEVER
    /\ tool_pc[tool] = SENT
    /\ \E outcome \in ToolOutcomes(tool) :
           LET r == ExecuteSearch(tool, outcome)
           IN /\ tool_evidence' = Put(tool_evidence, EvidenceKey(tool), List(r.results))
              /\ tool_log' = Append(tool_log, r.metadata)
              /\ tool_outcome' = [tool_outcome EXCEPT ![tool] = outcome]
    /\ tool_pc' = [tool_pc EXCEPT ![tool] = DONE]
    /\ UNCHANGED requestVars
    /\ UNCHANGED <<clientVars, reconcileVars>>

\* state.update(evidence=collected_evidence) and the log entry
FinishRetrieve ==
    /\ pc = DATA_RETRIEVER
    /\ \A tool \in FetchTools : tool_pc[tool] \in {DONE, SKIPPED}
    /\ evidence' = Dict(tool_evidence)
    /\ log' = Append(log, [node |-> "data_retriever",
                           tool_calls |-> tool_log,
                           total_results |-> [source \in DOMAIN tool_evidence |->
                                                 Len(tool_evidence[source].list)]])
    /\ pc' = RESPONSE_GENERATOR
    /\ UNCHANGED <<transcript, intent, plan, answer, citations, safety_flags, error>>
    /\ UNCHANGED <<clientVars, reconcileVars, fetchVars>>

FetchNext ==
    \/ \E tool \in FetchTools : SendRequest(tool)
    \/ \E tool \in FetchTools : ReceiveResults(tool)
    \/ FinishRetrieve

FetchSpec == FetchInit /\ [][FetchNext]_vars

\* C27: after retrieval, evidence has an entry for exactly the sources
\* named in plan.sources and for no other source, and whatever the order in
\* which the two tool calls were issued and answered, interleaved or not,
\* the evidence map is the one retrieve builds by calling the catalog tool
\* and then the web tool.
C27_EvidencePerSource ==
    (tool_pc # <<>> /\ pc = RESPONSE_GENERATOR) =>
        LET sources == plan.dict.sources
            named == (IF InList(RAG_SEARCH_TOOL, sources) THEN {"rag"} ELSE {})
                     \cup (IF InList(WEB_SEARCH_TOOL, sources) THEN {"web"} ELSE {})
            Outcome(tool) == IF tool_outcome[tool] = None THEN ToolFailure ELSE tool_outcome[tool]
        IN /\ DOMAIN evidence.dict = named
           /\ evidence = retrieve(plan, transcript,
                                  Outcome(RAG_SEARCH_TOOL), Outcome(WEB_SEARCH_TOOL)).evidence

\* a retrieval in which the web tool answered before the catalog tool, both
\* with results
C27_Witness ==
    /\ pc = RESPONSE_GENERATOR
    /\ Len(tool_log) = 2
    /\ tool_log[1].tool = "web.search" /\ tool_log[2].tool = "rag.search"
    /\ Len(evidence.dict.rag.list) = 4 /\ Len(evidence.dict.web.list) = 3

\* the name a citation has in the sources suffix: "doc #" and the id of a
\* doc_id citation, the domain (the third segment of the url, split at the
\* slashes) of a url citation
CitationName(c) ==
    IF Truthy(Get(c, "doc_id"))
    THEN <<"d", "o", "c", " ", "#">> \o Get(c, "doc_id").str
    ELSE Split(Get(c, "url").str, "/")[3]

\* C28: after a validator run with no safety flags, if the citations list
\* is non-empty and the incoming answer has no citation marker ("(source"
\* or "doc #", in any case), the final answer is the incoming text followed
\* by one "(Sources: ...)" suffix that names at most the first 5 citations;
\* if the answer has a marker or there are no citations, the text is
\* unchanged.
C28_SourcesSuffix ==
    [][(ValidatorRuns /\ ~Truthy(safety_flags)) =>
          LET text == answer.str
              cits == citations'.list
              marked ==
                  \/ Contains(Lower(text), <<"(", "s", "o", "u", "r", "c", "e">>)
                  \/ Contains(Lower(text), <<"d", "o", "c", " ", "#">>)
              shown == SelectSeq(SubSeq(cits, 1, Min(5, Len(cits))),
                                 LAMBDA c : Truthy(Get(c, "doc_id")) \/ Truthy(Get(c, "url")))
              names == [i \in 1..Len(shown) |-> CitationName(shown[i])]
          IN IF cits # <<>> /\ ~marked
             THEN answer'.str = text \o <<"\n", "\n", "(", "S", "o", "u", "r", "c", "e", "s", ":", " ">>
                                \o Join(<<",", " ">>, names) \o <<")">>
             ELSE answer'.str = text
      ]_vars

\* C28, amended: the suffix is appended if the answer has no marker and at
\* least one of the first 5 citations carries a doc_id or a url, and it
\* names those citations; if the answer has a marker, or none of the first
\* 5 citations carries an id (no citations at all included), the text is
\* unchanged.
C28_SourcesSuffixNamed ==
    [][(ValidatorRuns /\ ~Truthy(safety_flags)) =>
          LET text == answer.str
              cits == citations'.list
              marked ==
                  \/ Contains(Lower(text), <<"(", "s", "o", "u", "r", "c", "e">>)
                  \/ Contains(Lower(text), <<"d", "o", "c", " ", "#">>)
              shown == SelectSeq(SubSeq(cits, 1, Min(5, Len(cits))),
                                 LAMBDA c : Truthy(Get(c, "doc_id")) \/ Truthy(Get(c, "url")))
              names == [i \in 1..Len(shown) |-> CitationName(shown[i])]
          IN IF shown # <<>> /\ ~marked
             THEN answer'.str = text \o <<"\n", "\n", "(", "S", "o", "u", "r", "c", "e", "s", ":", " ">>
                                \o Join(<<",", " ">>, names) \o <<")">>
             ELSE answer'.str = text
      ]_vars

\* one validator run left six citations and appended the suffix
C28_Witness ==
    /\ pc = END
    /\ Len(log) = 1
    /\ ~Truthy(safety_flags)
    /\ Len(citations.list) = 6
    /\ log[1].checks.citation_format = "fixed"
    /\ Contains(answer.str, <<"(", "S", "o", "u", "r", "c", "e", "s", ":", " ">>)

\* C29: in every entry of reconcile's output a price conflict is present
\* only if a matched web item is present, which takes a best score above
\* 80: an entry whose best score is at or below the threshold and a
\* web_only entry carry no conflict.
C29_ConflictOnlyWhenMatched ==
    \A k \in 1..Len(ReconciledEntries) :
        LET entry == ReconciledEntries[k]
        IN /\ entry.conflict # None => (entry.web_match # None /\ entry.score > 80)
           /\ entry.source_type = Sym("web_only") => entry.conflict = None

\* C30: each stage changes only its own fields of the request state: the
\* classifier intent and safety_flags, the planner plan, the retriever
\* evidence, the synthesizer and the validator answer and citations; every
\* stage only appends to the log, leaving the earlier entries as they are;
\* so transcript, and after their producing stage intent, plan, evidence
\* and safety_flags, stay unchanged to the end of the run.
C30_StageFrames ==
    [][/\ transcript' = transcript
       /\ Len(log') >= Len(log) /\ SubSeq(log', 1, Len(log)) = log
       /\ pc = INTENT_CLASSIFIER => UNCHANGED <<plan, evidence, answer, citations>>
       /\ pc = QUERY_PLANNER => UNCHANGED <<intent, safety_flags, evidence, answer, citations>>
       /\ pc = DATA_RETRIEVER => UNCHANGED <<intent, safety_flags, plan, answer, citations>>
       /\ pc = RESPONSE_GENERATOR => UNCHANGED <<intent, safety_flags, plan, evidence>>
       /\ pc = QUALITY_EVALUATOR => UNCHANGED <<intent, safety_flags, plan, evidence>>
      ]_vars

\* a finished run whose plan carries a category filter, in which the
\* catalog was searched and every stage wrote its fields
C30_Witness ==
    /\ pc = END
    /\ "category" \in DOMAIN plan.dict.filters.dict
    /\ InList(RAG_SEARCH_TOOL, plan.dict.sources)
    /\ Truthy(intent) /\ CatalogEvidence # <<>>
    /\ Truthy(answer) /\ Truthy(citations)
    /\ Len(log) >= 5

====
